---- MODULE Spec2Model ----
(***************************************************************************)
(* Capture and frame pipeline of the Canon EOS OBS plugin.                 *)
(*                                                                         *)
(* The module models video-source.c (the pipeline: frame queue, producer   *)
(* thread, start/stop, get_frame/release_frame), the parts of              *)
(* canon-camera.c the pipeline calls (live view, capture_frame,            *)
(* disconnect, destroy) and the teardown paths of plugin-main.c            *)
(* (canon_eos_update, canon_eos_destroy).                                  *)
(*                                                                         *)
(* Threads: one control thread (the caller of init / update_format /       *)
(* start / stop and of the glue's update / destroy), consumer threads      *)
(* (callers of get_frame / release_frame) and the producer threads that    *)
(* video_source_start spawns.  A call of an entry point begins with the    *)
(* step in which its pthread_mutex_lock succeeds; the locks taken inside   *)
(* a function (after a wait, in the producer's loop) are steps of their    *)
(* own (mutex_lock).  A critical section is one step that ends with the    *)
(* unlock, or with the wait on the condition variable.                     *)
(***************************************************************************)
EXTENDS Integers, Sequences, FiniteSets, TLC

\* ---------------------------------------------------------------- bounds
\* The device hands out preview images while fewer than MaxImages images
\* have been enqueued or counted as dropped.
MaxImages == 5

\* ------------------------------------------------------ program constants
FRAME_QUEUE_SIZE == 4

\* -------------------------------------------------------------- universe
CTL == "ctl"
CTL2 == "ctl2"
Controllers == {CTL, CTL2}
Cons == {"c1"}
Prod == {"p1", "p2"}
Threads == Controllers \cup Cons \cup Prod
Cams == {"camA", "camB"}
NULL == "null"
Slots == 0 .. (FRAME_QUEUE_SIZE - 1)

\* Formats the control layer configures and sizes the decoder reports
\* (abstract units; the decoder's sizes differ from the configured ones).
Formats == {[width |-> 4, height |-> 2]}
DecodedDims == {[width |-> 3, height |-> 2], [width |-> 2, height |-> 2]}

\* cinfo.output_width and cinfo.output_height of the image that becomes the
\* n-th enqueued frame: the device's images alternate between the two sizes.
ImageDims(n) ==
    IF n % 2 = 1 THEN [width |-> 3, height |-> 2]
                 ELSE [width |-> 2, height |-> 2]

VARIABLES
    camera,           \* video_source_t.camera: a camera or NULL
    format,           \* video_source_t.format (width, height)
    capture_thread,   \* video_source_t.capture_thread: last thread created
    mutex,            \* owner of video_source_t.mutex, or "free"
    frame_queue,      \* video_source_t.frame_queue[FRAME_QUEUE_SIZE]
    write_index, read_index, frame_count,
    active, thread_running,
    frames_captured, frames_dropped, last_frame_time,
    cam,              \* the canon_camera_t objects
    eos_camera,       \* canon_eos_source.camera of the glue
    destroyed,        \* canon_eos_destroy has begun on the source
    pc,               \* position of every thread
    arg,              \* format argument of the control thread's call
    ret,              \* value returned by a thread's last finished call
    held,             \* per consumer: slots obtained and not yet released
    clock,            \* os_gettime_ns(): strictly increasing
    delivered,        \* history: frames returned by get_frame, in order
    enqueued,         \* history: timestamps enqueued by the producer
    overwritten,      \* history: slots written while a consumer held them
    uaf,              \* history: a destroyed camera or pipeline was used
    conv_in,          \* converter: decoded size of the image handed to it
    conv_out,         \* converter: its result and the bytes it wrote
    sess,             \* canon_camera_t objects, at the level of their lock
    sess_mutex,       \* owner of each canon_camera_t.mutex, or "free"
    op,               \* the session call each thread is executing
    responsive,       \* the device still answers requests
    canon_camera,     \* one canon_camera_t with all its fields
    gp_objects,       \* the library's objects: how many live, any misuse
    api,              \* the last finished call on canon_camera
    detector,         \* camera_detector_t: running, registry, callback
    monitor,          \* position of the detector's monitor thread
    usb,              \* the bus: devices present, hot-plug events pending
    cb_last,          \* the last invocation of the event callback
    eos,              \* canon_eos_source: active, thread_running, settings
    eos_mutex,        \* owner of canon_eos_source.mutex, or "free"
    sink,             \* the last frame given to obs_source_output_video
    plugin            \* g_plugin_mutex, g_plugin_initialized, g_detector

vars == <<camera, format, capture_thread, mutex, frame_queue, write_index,
          read_index, frame_count, active, thread_running,
          frames_captured, frames_dropped, last_frame_time, cam, eos_camera,
          destroyed, pc, arg, ret, held, clock, delivered, enqueued,
          overwritten, uaf, conv_in, conv_out, sess,
          sess_mutex, op, responsive, canon_camera, gp_objects, api,
          detector, monitor, usb, cb_last, eos, eos_mutex, sink, plugin>>

queueVars == <<frame_queue, write_index, read_index, frame_count>>
statVars == <<frames_captured, frames_dropped, last_frame_time>>
histVars == <<delivered, enqueued, overwritten>>
glueVars == <<eos_camera, destroyed>>
camVars == <<cam, glueVars, uaf>>
convVars == <<conv_in, conv_out>>
sessVars == <<sess, sess_mutex, op, responsive>>
apiVars == <<canon_camera, gp_objects, api>>
detVars == <<detector, monitor, usb, cb_last>>
eosVars == <<eos, eos_mutex, sink, plugin>>
auxVars == <<convVars, sessVars, apiVars, detVars, eosVars>>
devVars == <<clock, auxVars>>

\* ------------------------------------------------------------ helpers
Set(t, v) == [pc EXCEPT ![t] = v]
Return(t, v) == [ret EXCEPT ![t] = v]

\* Slots some consumer holds a reference to.
HeldSlots == UNION {held[c] : c \in Cons}

\* Producer threads that exist (created and not yet joined).
Alive == {p \in Prod : pc[p] # "none"}
\* Producer threads still executing capture_thread_func.
Executing == {p \in Prod : pc[p] \notin {"none", "exited"}}

\* Mutant: the index is advanced without the wrap-around.
NextIndex_NoWrap(i) == i + 1

\* (index + 1) % FRAME_QUEUE_SIZE
NextIndex(i) == (i + 1) % FRAME_QUEUE_SIZE

\* Mutant: the full test is off by one.
QueueFull_OffByOne == frame_count > FRAME_QUEUE_SIZE

\* frame_count >= FRAME_QUEUE_SIZE
QueueFull == frame_count >= FRAME_QUEUE_SIZE

\* video_source_create: a zeroed slot.
EmptySlot == [width |-> 0, height |-> 0, linesize |-> <<0, 0>>,
              timestamp |-> 0, in_use |-> FALSE]

\* Physical devices on the bus; a device path names one of them.
Devs == {"usb1", "usb2"}
Paths == Devs

\* The threads that call into canon-camera.c.
SessThreads == {CTL, "p1"}

\* canon_camera_create: a zeroed canon_camera_t.
NewSession == [connected |-> FALSE, live_view_active |-> FALSE,
               device_path |-> "", gphoto_camera |-> NULL]

\* No session call in progress.
NoOp == [name |-> "none", k |-> NULL, path |-> ""]

\* The sessions exist, nothing is connected, nobody is calling.
SessionInit ==
    /\ sess = [k \in Cams |-> NewSession]
    /\ sess_mutex = [k \in Cams |-> "free"]
    /\ op = [t \in SessThreads |-> NoOp]
    /\ responsive = TRUE

\* canon_config_t of the glue's default settings (plugin-main.c, line 54).
DefaultConfig == [width |-> 1920, height |-> 1080, fps |-> 30]

\* canon_camera_create: calloc zeroes the structure.
ZeroConfig == [width |-> 0, height |-> 0, fps |-> 0]
NewCanonCamera ==
    [alloc |-> TRUE, gphoto_camera |-> NULL, abilities_list |-> NULL,
     port_info_list |-> NULL, device_path |-> "", connected |-> FALSE,
     live_view_active |-> FALSE, config |-> ZeroConfig, frame_count |-> 0]

\* No call on canon_camera has finished yet.
NoCall == [fn |-> "none", err |-> "-", path |-> "", config |-> ZeroConfig,
           buffer_size |-> 0, size |-> 0, bytes_written |-> 0]

\* A created camera object; the library holds no object for it.
ApiInit ==
    /\ canon_camera = NewCanonCamera
    /\ gp_objects = [live |-> 0, misused |-> FALSE]
    /\ api = NoCall

\* No invocation of the event callback yet.
NoCallback == [dev |-> "", connected |-> FALSE, thread |-> "",
               locked |-> FALSE, in_registry |-> FALSE]

\* Before camera_detector_create: nothing on the bus, no detector.
DetectorInit ==
    /\ detector = [running |-> FALSE, registered |-> FALSE,
                   cameras |-> <<>>, event_callback |-> FALSE]
    /\ monitor = "none"
    /\ usb = [present |-> {}, pending |-> <<>>, events |-> 0]
    /\ cb_last = NoCallback

\* A source as canon_eos_create leaves it (bzalloc, then canon_eos_update
\* with the default settings: 1080 lines, 30 frames a second); no frame
\* has gone to the host; the plugin is not loaded.
NoFrame == [slot |-> NULL, width |-> 0, height |-> 0]
EosInit ==
    /\ eos = [active |-> FALSE, thread_running |-> FALSE,
              width |-> 1920, height |-> 1080, fps |-> 30, frame_count |-> 0]
    /\ eos_mutex = "free"
    /\ sink = NoFrame
    /\ plugin = [mutex |-> "free", initialized |-> FALSE,
                 library |-> FALSE, detector |-> FALSE]

\* The converter has not been handed an image / has not run.
NoImage == [width |-> 0, height |-> 0]
NoOutput == [err |-> "-", y_bytes |-> 0, uv_bytes |-> 0, rgb_alloc |-> 0]

\* ------------------------------------------------------------ Init
\* After canon_eos_create: video_source_create has run and canon_eos_update
\* has created and connected the camera of the selected device path.
PipelineInit ==
    /\ camera = NULL
    /\ format = [width |-> 4, height |-> 2]
    /\ capture_thread = NULL
    /\ mutex = "free"
    /\ frame_queue = [i \in Slots |-> EmptySlot]
    /\ write_index = 0 /\ read_index = 0 /\ frame_count = 0
    /\ active = FALSE /\ thread_running = FALSE
    /\ frames_captured = 0 /\ frames_dropped = 0 /\ last_frame_time = 0
    /\ cam = [k \in Cams |-> IF k = "camA"
                THEN [st |-> "connected", live_view_active |-> FALSE]
                ELSE [st |-> "unalloc", live_view_active |-> FALSE]]
    /\ eos_camera = "camA"
    /\ destroyed = FALSE
    /\ arg = [width |-> 4, height |-> 2]
    /\ ret = [t \in Threads |-> "-"]
    /\ held = [c \in Cons |-> {}]
    /\ clock = 0
    /\ delivered = <<>>
    /\ enqueued = <<>>
    /\ overwritten = {}
    /\ uaf = FALSE

Init ==
    /\ PipelineInit
    /\ pc = [t \in Threads |-> IF t \in Prod THEN "none" ELSE "idle"]
    /\ conv_in = NoImage /\ conv_out = NoOutput
    /\ SessionInit
    /\ ApiInit
    /\ EosInit
    /\ DetectorInit


\* ------------------------------------------------- camera (canon-camera.c)
\* A camera object that canon_camera_destroy has freed.
Freed(k) == cam[k].st = "freed"

\* canon_camera_start_live_view: the error codes it can return and the
\* camera state each leaves.  gp_camera_get_config may fail.
canon_camera_start_live_view(k) ==
    IF Freed(k)
    THEN {[err |-> e, cam |-> cam] : e \in {"SUCCESS", "DISCONNECTED"}}
    ELSE IF cam[k].st # "connected"
    THEN {[err |-> "DISCONNECTED", cam |-> cam]}
    ELSE IF cam[k].live_view_active
    THEN {[err |-> "SUCCESS", cam |-> cam]}
    ELSE {[err |-> "UNKNOWN", cam |-> cam],
          [err |-> "SUCCESS",
           cam |-> [cam EXCEPT ![k].live_view_active = TRUE]]}

\* canon_camera_stop_live_view applied to the camera state cm.
canon_camera_stop_live_view(cm, k) ==
    IF cm[k].st = "connected" /\ cm[k].live_view_active
    THEN [cm EXCEPT ![k].live_view_active = FALSE]
    ELSE cm

\* canon_camera_capture_frame: the error codes it can return.
canon_camera_capture_frame(k) ==
    IF Freed(k) THEN {"SUCCESS", "DISCONNECTED"}
    ELSE IF cam[k].st # "connected" THEN {"DISCONNECTED"}
    ELSE IF ~cam[k].live_view_active THEN {"NOT_SUPPORTED"}
    ELSE {"SUCCESS", "TIMEOUT", "UNKNOWN"}

\* canon_camera_disconnect applied to the camera state cm.
canon_camera_disconnect(cm, k) ==
    IF cm[k].st = "connected"
    THEN [cm EXCEPT ![k] = [st |-> "disconnected", live_view_active |-> FALSE]]
    ELSE cm

\* canon_camera_destroy applied to the camera state cm: disconnects a
\* connected camera, then frees the object.
canon_camera_destroy(cm, k) ==
    [canon_camera_disconnect(cm, k) EXCEPT ![k].st = "freed"]

\* ----------------------------------------------------- pipeline mutex
\* Positions at which a thread is inside pthread_mutex_lock(&source->mutex),
\* and the position it continues at once it owns the mutex.
AfterLock ==
    [gf_relock |-> "gf_cs", gf_tmo_lock |-> "gf_tmo", enq_lock |-> "enq_cs"]

mutex_lock(t) ==
    /\ pc[t] \in DOMAIN AfterLock
    /\ mutex = "free"
    /\ mutex' = t
    /\ pc' = Set(t, AfterLock[pc[t]])
    /\ UNCHANGED <<camera, format, capture_thread, queueVars, active,
                   thread_running, statVars, camVars, devVars, arg, ret, held,
                   histVars>>

\* ------------------------------------------- control thread: the calls
\* The control thread enters one of the pipeline's entry points; the call
\* starts with its pthread_mutex_lock succeeding.
CallInit(t, f) ==
    /\ pc[t] = "idle" /\ ~destroyed /\ eos_camera # NULL
    /\ mutex = "free" /\ mutex' = t
    /\ pc' = Set(t, "init_cs") /\ arg' = f /\ ret' = Return(t, "-")
    /\ UNCHANGED <<camera, format, capture_thread, queueVars, active,
                   thread_running, statVars, camVars, devVars, held, histVars>>

CallUpdateFormat(t, f) ==
    /\ pc[t] = "idle" /\ ~destroyed
    /\ mutex = "free" /\ mutex' = t
    /\ pc' = Set(t, "upd_cs") /\ arg' = f /\ ret' = Return(t, "-")
    /\ UNCHANGED <<camera, format, capture_thread, queueVars, active,
                   thread_running, statVars, camVars, devVars, held, histVars>>

CallStart(t) ==
    /\ pc[t] = "idle" /\ ~destroyed
    /\ mutex = "free" /\ mutex' = t
    /\ pc' = Set(t, "start_cs") /\ ret' = Return(t, "-")
    /\ UNCHANGED <<camera, format, capture_thread, queueVars, active,
                   thread_running, statVars, camVars, devVars, arg, held,
                   histVars>>

CallStop(t) ==
    /\ pc[t] = "idle" /\ ~destroyed
    /\ mutex = "free" /\ mutex' = t
    /\ pc' = Set(t, "stop_cs") /\ ret' = Return(t, "-")
    /\ UNCHANGED <<camera, format, capture_thread, queueVars, active,
                   thread_running, statVars, camVars, devVars, arg, held,
                   histVars>>

\* ------------------------------------------------ video_source_init
video_source_init(t) ==
    /\ pc[t] = "init_cs" /\ mutex = t
    /\ mutex' = "free" /\ pc' = Set(t, "idle")
    /\ IF active
       THEN /\ ret' = Return(t, "CAMERA_BUSY")
            /\ UNCHANGED <<camera, format, frame_queue>>
       ELSE /\ camera' = eos_camera
            /\ format' = arg
            /\ frame_queue' = [i \in Slots |->
                   [frame_queue[i] EXCEPT !.linesize = <<arg.width, arg.width>>,
                                          !.in_use = FALSE]]
            /\ ret' = Return(t, "SUCCESS")
    /\ UNCHANGED <<capture_thread, write_index, read_index, frame_count, active,
                   thread_running, statVars, camVars, devVars, arg, held,
                   histVars>>

\* ----------------------------------------- video_source_update_format
video_source_update_format(t) ==
    /\ pc[t] = "upd_cs" /\ mutex = t
    /\ mutex' = "free" /\ pc' = Set(t, "idle")
    /\ IF active
       THEN /\ ret' = Return(t, "CAMERA_BUSY")
            /\ UNCHANGED <<format, frame_queue>>
       ELSE /\ format' = arg
            /\ frame_queue' = [i \in Slots |->
                   [frame_queue[i] EXCEPT !.linesize = <<arg.width, arg.width>>]]
            /\ ret' = Return(t, "SUCCESS")
    /\ UNCHANGED <<camera, capture_thread, write_index, read_index, frame_count,
                   active, thread_running, statVars, camVars, devVars, arg,
                   held, histVars>>

\* Mutant: start does not look at the active flag.
StartIsNoop_NoCheck == FALSE

\* ------------------------------------------------ video_source_start
\* if (source->active) return CANON_SUCCESS;
StartIsNoop == active

\* Mutant: a failed pthread_create leaves the flags set.
FlagAfterFailedCreate_Kept == TRUE

\* Lines 208-209: source->active = false; source->thread_running = false;
FlagAfterFailedCreate == FALSE

\* The thread id pthread_create hands out.
NewThread == CHOOSE p \in Prod : pc[p] = "none"

video_source_start(t) ==
    /\ pc[t] = "start_cs" /\ mutex = t
    /\ mutex' = "free"
    /\ UNCHANGED <<camera, format, queueVars, statVars, glueVars, devVars,
                   arg, held, histVars>>
    /\ IF StartIsNoop
       THEN /\ pc' = Set(t, "idle") /\ ret' = Return(t, "SUCCESS")
            /\ UNCHANGED <<capture_thread, active, thread_running, cam, uaf>>
       ELSE IF camera = NULL
       THEN /\ pc' = Set(t, "idle") /\ ret' = Return(t, "NO_DEVICE")
            /\ UNCHANGED <<capture_thread, active, thread_running, cam, uaf>>
       ELSE \E o \in canon_camera_start_live_view(camera) :
            /\ uaf' = (uaf \/ Freed(camera))
            /\ IF o.err # "SUCCESS"
               THEN /\ cam' = o.cam
                    /\ pc' = Set(t, "idle") /\ ret' = Return(t, o.err)
                    /\ UNCHANGED <<capture_thread, active, thread_running>>
               ELSE \/ \* pthread_create succeeds
                       /\ \E p \in Prod : pc[p] = "none"
                       /\ cam' = o.cam
                       /\ active' = TRUE /\ thread_running' = TRUE
                       /\ capture_thread' = NewThread
                       /\ pc' = [pc EXCEPT ![t] = "idle", ![NewThread] = "loop"]
                       /\ ret' = Return(t, "SUCCESS")
                    \/ \* pthread_create fails
                       /\ cam' = canon_camera_stop_live_view(o.cam, camera)
                       /\ active' = FlagAfterFailedCreate
                       /\ thread_running' = FlagAfterFailedCreate
                       /\ pc' = Set(t, "idle") /\ ret' = Return(t, "UNKNOWN")
                       /\ UNCHANGED capture_thread

\* ------------------------------------------------- video_source_stop
\* Mutant: stop does not broadcast on frame_available.
Broadcast_None(f) == f

\* pthread_cond_broadcast(&source->frame_available): every waiter wakes up
\* and goes for the mutex.
Broadcast(f) == [t \in Threads |-> IF f[t] = "gf_wait" THEN "gf_relock" ELSE f[t]]

\* Mutant: stop does not look at the active flag.
StopIsNoop_Never == FALSE

\* Lines 228-231: if (!source->active) { unlock; return; }
StopIsNoop == ~active

\* Mutant: stop keeps the mutex while it goes on to the join.
video_source_stop_signal_KeepLock(t) ==
    /\ pc[t] = "stop_cs" /\ mutex = t
    /\ IF ~active
       THEN /\ pc' = Set(t, "idle") /\ ret' = Return(t, "void")
            /\ mutex' = "free"
            /\ UNCHANGED active
       ELSE /\ active' = FALSE
            /\ pc' = Broadcast(Set(t, "stop_join"))
            /\ UNCHANGED <<ret, mutex>>
    /\ UNCHANGED <<camera, format, capture_thread, queueVars, thread_running,
                   statVars, camVars, devVars, arg, held, histVars>>

\* Lines 226-235: the locked part of stop.
video_source_stop_signal(t) ==
    /\ pc[t] = "stop_cs" /\ mutex = t
    /\ mutex' = "free"
    /\ IF StopIsNoop
       THEN /\ pc' = Set(t, "idle") /\ ret' = Return(t, "void")
            /\ UNCHANGED active
       ELSE /\ active' = FALSE
            /\ pc' = Broadcast(Set(t, "stop_join"))
            /\ UNCHANGED ret
    /\ UNCHANGED <<camera, format, capture_thread, queueVars, thread_running,
                   statVars, camVars, devVars, arg, held, histVars>>

\* Mutant: stop does not join the thread.
video_source_stop_join_NoJoin(t) ==
    /\ pc[t] = "stop_join"
    /\ pc' = Set(t, "stop_lv")
    /\ thread_running' = FALSE
    /\ UNCHANGED <<camera, format, capture_thread, mutex, queueVars, active,
                   statVars, camVars, devVars, arg, ret, held, histVars>>

\* Lines 237-240: pthread_join returns once the thread has terminated.
video_source_stop_join(t) ==
    /\ pc[t] = "stop_join"
    /\ IF thread_running
       THEN /\ pc[capture_thread] = "exited"
            /\ pc' = [pc EXCEPT ![t] = "stop_lv", ![capture_thread] = "none"]
            /\ thread_running' = FALSE
       ELSE /\ pc' = Set(t, "stop_lv")
            /\ UNCHANGED thread_running
    /\ UNCHANGED <<camera, format, capture_thread, mutex, queueVars, active,
                   statVars, camVars, devVars, arg, ret, held, histVars>>

\* Lines 242-246: live view is switched off and stop returns.
video_source_stop_live_view(t) ==
    /\ pc[t] = "stop_lv"
    /\ pc' = Set(t, "idle") /\ ret' = Return(t, "void")
    /\ IF camera # NULL
       THEN /\ cam' = canon_camera_stop_live_view(cam, camera)
            /\ uaf' = (uaf \/ Freed(camera))
       ELSE UNCHANGED <<cam, uaf>>
    /\ UNCHANGED <<camera, format, capture_thread, mutex, queueVars, active,
                   thread_running, statVars, glueVars, devVars, arg, held,
                   histVars>>


\* --------------------------------------------- video_source_get_frame
\* The consumer calls get_frame; as the glue's consumer does, it asks for
\* a frame only when it has given the previous one back.
CallGetFrame(c) ==
    /\ pc[c] = "idle" /\ held[c] = {}
    /\ mutex = "free" /\ mutex' = c
    /\ pc' = Set(c, "gf_cs") /\ ret' = Return(c, "-")
    /\ UNCHANGED <<camera, format, capture_thread, queueVars, active,
                   thread_running, statVars, camVars, devVars, arg, held,
                   histVars>>

\* Lines 312-319: the frame handed to the caller.
FrameOf(i) ==
    [slot |-> i,
     uv_offset |-> frame_queue[i].width * frame_queue[i].height,
     linesize |-> frame_queue[i].linesize,
     timestamp |-> frame_queue[i].timestamp,
     width |-> frame_queue[i].width,
     height |-> frame_queue[i].height]

\* Mutant: get_frame hands out the newest frame instead of the oldest.
ReadSlot_Newest == (write_index + FRAME_QUEUE_SIZE - 1) % FRAME_QUEUE_SIZE

\* The slot get_frame reads: &source->frame_queue[source->read_index].
ReadSlot == read_index

\* Lines 271-326 with the mutex held: on entry and after every wake-up.
\* Not active: Disconnected.  Active with an empty queue: wait on
\* frame_available (the mutex is released).  Otherwise the frame at
\* read_index is handed out.
video_source_get_frame(c) ==
    /\ pc[c] = "gf_cs" /\ mutex = c
    /\ mutex' = "free"
    /\ UNCHANGED <<camera, format, capture_thread, write_index, active,
                   thread_running, statVars, camVars, devVars, arg, enqueued,
                   overwritten>>
    /\ IF ~active
       THEN /\ pc' = Set(c, "idle") /\ ret' = Return(c, "DISCONNECTED")
            /\ UNCHANGED <<frame_queue, read_index, frame_count, held, delivered>>
       ELSE IF frame_count = 0
       THEN /\ pc' = Set(c, "gf_wait")
            /\ UNCHANGED <<frame_queue, read_index, frame_count, held, delivered,
                           ret>>
       ELSE IF frame_queue[ReadSlot].width = 0 \/ frame_queue[ReadSlot].height = 0
       THEN /\ pc' = Set(c, "idle") /\ ret' = Return(c, "UNKNOWN")
            /\ UNCHANGED <<frame_queue, read_index, frame_count, held, delivered>>
       ELSE /\ frame_queue' = [frame_queue EXCEPT ![ReadSlot].in_use = TRUE]
            /\ read_index' = NextIndex(read_index)
            /\ frame_count' = frame_count - 1
            /\ held' = [held EXCEPT ![c] = @ \cup {ReadSlot}]
            /\ delivered' = Append(delivered, FrameOf(ReadSlot))
            /\ pc' = Set(c, "idle") /\ ret' = Return(c, "SUCCESS")

\* Mutant: the wait has no deadline (pthread_cond_wait).
cond_timedwait_timeout_NoDeadline(c) ==
    /\ pc[c] = "gf_wait"
    /\ FALSE
    /\ UNCHANGED vars

\* pthread_cond_timedwait reaches its deadline (100 ms): the waiter goes for
\* the mutex and will return ETIMEDOUT.
cond_timedwait_timeout(c) ==
    /\ pc[c] = "gf_wait"
    /\ pc' = Set(c, "gf_tmo_lock")
    /\ UNCHANGED <<camera, format, capture_thread, mutex, queueVars, active,
                   thread_running, statVars, camVars, devVars, arg, ret, held,
                   histVars>>

\* pthread_cond_timedwait returns 0 without a signal (POSIX allows it).
cond_timedwait_spurious(c) ==
    /\ pc[c] = "gf_wait"
    /\ pc' = Set(c, "gf_relock")
    /\ UNCHANGED <<camera, format, capture_thread, mutex, queueVars, active,
                   thread_running, statVars, camVars, devVars, arg, ret, held,
                   histVars>>

\* Lines 287-289: ret == ETIMEDOUT, unlock, return CANON_ERROR_TIMEOUT.
video_source_get_frame_timeout(c) ==
    /\ pc[c] = "gf_tmo" /\ mutex = c
    /\ mutex' = "free"
    /\ pc' = Set(c, "idle") /\ ret' = Return(c, "TIMEOUT")
    /\ UNCHANGED <<camera, format, capture_thread, queueVars, active,
                   thread_running, statVars, camVars, devVars, arg, held,
                   histVars>>

\* ----------------------------------------- video_source_release_frame
CallReleaseFrame(c) ==
    /\ pc[c] = "idle" /\ held[c] # {}
    /\ mutex = "free" /\ mutex' = c
    /\ pc' = Set(c, "rf_cs") /\ ret' = Return(c, "-")
    /\ UNCHANGED <<camera, format, capture_thread, queueVars, active,
                   thread_running, statVars, camVars, devVars, arg, held,
                   histVars>>

\* The slot whose data[0] equals frame->data[0] gets in_use = false.
video_source_release_frame(c) ==
    /\ pc[c] = "rf_cs" /\ mutex = c
    /\ mutex' = "free"
    /\ \E i \in held[c] :
          /\ frame_queue' = [frame_queue EXCEPT ![i].in_use = FALSE]
          /\ held' = [held EXCEPT ![c] = @ \ {i}]
    /\ pc' = Set(c, "idle") /\ ret' = Return(c, "void")
    /\ UNCHANGED <<camera, format, capture_thread, write_index, read_index,
                   frame_count, active, thread_running, statVars, camVars,
                   devVars, arg, histVars>>

\* ------------------------------------------------ capture_thread_func
\* Line 418: while (source->thread_running && source->active)
capture_loop(p) ==
    /\ pc[p] = "loop"
    /\ pc' = Set(p, IF thread_running /\ active THEN "capture" ELSE "exited")
    /\ UNCHANGED <<camera, format, capture_thread, mutex, queueVars, active,
                   thread_running, statVars, camVars, devVars, arg, ret, held,
                   histVars>>

\* Lines 419-433: canon_camera_capture_frame into the conversion buffer; on
\* an error the thread sleeps one frame interval and goes round the loop.
capture_frame(p) ==
    /\ pc[p] = "capture"
    /\ uaf' = (uaf \/ Freed(camera))
    /\ \E err \in canon_camera_capture_frame(camera) :
          IF err = "SUCCESS"
          THEN /\ frames_captured + frames_dropped < MaxImages
               /\ pc' = Set(p, "enq_lock")
          ELSE pc' = Set(p, "loop")
    /\ UNCHANGED <<camera, format, capture_thread, mutex, queueVars, active,
                   thread_running, statVars, cam, glueVars, clock, auxVars,
                   arg, ret, held, histVars>>

\* Mutant: the converter leaves the requested (configured) size in place.
ConvertedDims_Requested(d) == [width |-> format.width, height |-> format.height]

\* Lines 523-524 of convert_jpeg_to_nv12: *width = actual_width and
\* *height = actual_height, with d the size the decoder reports.
ConvertedDims(d) == d

\* convert_jpeg_to_nv12: what it can return.
ConvertResults == {"SUCCESS", "BAD_HEADER", "MEMORY"}

\* The slot the producer writes: &source->frame_queue[source->write_index].
WriteSlot == write_index

\* Line 449: if (!buffer->in_use)
Writable(i) == ~frame_queue[i].in_use

\* pthread_cond_signal(&source->frame_available): one waiter, if there is
\* one, wakes up and goes for the mutex.
Signal(f) ==
    IF \E c \in Cons : f[c] = "gf_wait"
    THEN {[f EXCEPT ![c] = "gf_relock"] : c \in {x \in Cons : f[x] = "gf_wait"}}
    ELSE {f}

\* Mutant: on a full queue the oldest frame is given up for the new one.
capture_drop_Oldest(p) ==
    /\ pc[p] = "enq_cs" /\ mutex = p
    /\ QueueFull
    /\ frames_dropped' = frames_dropped + 1
    /\ read_index' = NextIndex(read_index)
    /\ frame_count' = frame_count - 1
    /\ mutex' = "free"
    /\ pc' = Set(p, "loop")
    /\ UNCHANGED <<camera, format, capture_thread, frame_queue, write_index,
                   active, thread_running, frames_captured, last_frame_time,
                   camVars, devVars, arg, ret, held, histVars>>

\* Lines 441-445: the queue is full, the image is counted and dropped; the
\* thread goes round the loop without sleeping.
capture_drop(p) ==
    /\ pc[p] = "enq_cs" /\ mutex = p
    /\ QueueFull
    /\ frames_dropped' = frames_dropped + 1
    /\ mutex' = "free"
    /\ pc' = Set(p, "loop")
    /\ UNCHANGED <<camera, format, capture_thread, queueVars, active,
                   thread_running, frames_captured, last_frame_time, camVars,
                   devVars, arg, ret, held, histVars>>

\* Lines 447-485: the image is converted into the slot at write_index, if
\* the slot is not in use, and enqueued if the conversion succeeded.
capture_enqueue(p) ==
    /\ pc[p] = "enq_cs" /\ mutex = p
    /\ ~QueueFull
    /\ mutex' = "free"
    /\ UNCHANGED <<camera, format, capture_thread, read_index, active,
                   thread_running, frames_dropped, camVars, auxVars, arg, ret,
                   held, delivered>>
    /\ IF ~Writable(WriteSlot)
       THEN /\ pc' = Set(p, "loop")
            /\ UNCHANGED <<frame_queue, write_index, frame_count, frames_captured,
                           last_frame_time, clock, enqueued, overwritten>>
       ELSE \E r \in ConvertResults :
            LET d == ConvertedDims(ImageDims(clock + 1)) IN
            CASE r = "BAD_HEADER" ->
                 /\ frame_queue' = [frame_queue EXCEPT
                        ![WriteSlot].width = format.width,
                        ![WriteSlot].height = format.height]
                 /\ pc' = Set(p, "loop")
                 /\ UNCHANGED <<write_index, frame_count, frames_captured,
                                last_frame_time, clock, enqueued, overwritten>>
              [] r = "MEMORY" ->
                 /\ frame_queue' = [frame_queue EXCEPT
                        ![WriteSlot].width = d.width,
                        ![WriteSlot].height = d.height]
                 /\ pc' = Set(p, "loop")
                 /\ UNCHANGED <<write_index, frame_count, frames_captured,
                                last_frame_time, clock, enqueued, overwritten>>
              [] r = "SUCCESS" ->
                 /\ clock' = clock + 1
                 /\ frame_queue' = [frame_queue EXCEPT ![WriteSlot] =
                        [width |-> d.width, height |-> d.height,
                         linesize |-> <<d.width, d.width>>,
                         timestamp |-> clock + 1,
                         in_use |-> frame_queue[WriteSlot].in_use]]
                 /\ write_index' = NextIndex(write_index)
                 /\ frame_count' = frame_count + 1
                 /\ frames_captured' = frames_captured + 1
                 /\ last_frame_time' = clock + 1
                 /\ enqueued' = Append(enqueued, clock + 1)
                 /\ overwritten' = IF WriteSlot \in HeldSlots
                                   THEN overwritten \cup {WriteSlot}
                                   ELSE overwritten
                 /\ pc' \in Signal(Set(p, "loop"))

\* ------------------------------------------------------ specification
\* The pipeline with its camera connected for the whole run: one control
\* thread calls init / update_format / start / stop one after the other,
\* the consumers call get_frame / release_frame, the producer runs.
Next ==
    \/ \E t \in Threads : mutex_lock(t)
    \/ \E f \in Formats : CallInit(CTL, f)
    \/ \E f \in Formats : CallUpdateFormat(CTL, f)
    \/ CallStart(CTL)
    \/ CallStop(CTL)
    \/ video_source_init(CTL)
    \/ video_source_update_format(CTL)
    \/ video_source_start(CTL)
    \/ video_source_stop_signal(CTL)
    \/ video_source_stop_join(CTL)
    \/ video_source_stop_live_view(CTL)
    \/ \E c \in Cons : CallGetFrame(c)
    \/ \E c \in Cons : video_source_get_frame(c)
    \/ \E c \in Cons : cond_timedwait_timeout(c)
    \/ \E c \in Cons : cond_timedwait_spurious(c)
    \/ \E c \in Cons : video_source_get_frame_timeout(c)
    \/ \E c \in Cons : CallReleaseFrame(c)
    \/ \E c \in Cons : video_source_release_frame(c)
    \/ \E p \in Prod : capture_loop(p)
    \/ \E p \in Prod : capture_frame(p)
    \/ \E p \in Prod : capture_drop(p)
    \/ \E p \in Prod : capture_enqueue(p)

Spec == Init /\ [][Next]_vars


\* ------------------------------------------------ glue (plugin-main.c)
\* The camera object canon_camera_create allocates.
NewCamera == CHOOSE k \in Cams : cam[k].st = "unalloc"

\* Lines 169-173 and 231-234: the source's camera, if it has one, is
\* disconnected and destroyed.
TearDownCamera ==
    IF eos_camera # NULL
    THEN canon_camera_destroy(canon_camera_disconnect(cam, eos_camera), eos_camera)
    ELSE cam

\* Lines 145-161: the width and height for the "resolution" setting.
ResolutionOf(r) ==
    CASE r = 2160 -> [width |-> 3840, height |-> 2160]
      [] r = 720 -> [width |-> 1280, height |-> 720]
      [] OTHER -> [width |-> 1920, height |-> 1080]

\* canon_eos_update, under the source's mutex.  The settings are stored
\* (lines 141-161).  With a device path that differs from the current one
\* (lines 163-195) the old camera is disconnected and destroyed; for a
\* non-empty path a new camera is created and connected, and destroyed
\* again if the connection fails.
canon_eos_update(t) ==
    /\ pc[t] = "idle" /\ ~destroyed
    /\ eos_mutex = "free"
    /\ \E r \in {2160, 1080, 720}, f \in {30, 60} :
          eos' = [eos EXCEPT !.width = ResolutionOf(r).width,
                             !.height = ResolutionOf(r).height,
                             !.fps = f]
    /\ \/ \* the path is the current one
          UNCHANGED <<cam, eos_camera>>
       \/ \* the new path is empty
          /\ eos_camera # NULL
          /\ cam' = TearDownCamera
          /\ eos_camera' = NULL
       \/ \* the new path names a device and canon_camera_connect succeeds
          /\ \E k \in Cams : cam[k].st = "unalloc"
          /\ cam' = [TearDownCamera EXCEPT ![NewCamera].st = "connected"]
          /\ eos_camera' = NewCamera
       \/ \* the new path names a device and canon_camera_connect fails
          /\ \E k \in Cams : cam[k].st = "unalloc"
          /\ cam' = [TearDownCamera EXCEPT ![NewCamera].st = "freed"]
          /\ eos_camera' = NULL
    /\ UNCHANGED <<camera, format, capture_thread, mutex, queueVars, active,
                   thread_running, statVars, destroyed, uaf, clock, convVars,
                   sessVars, apiVars, detVars, eos_mutex, sink, plugin, pc,
                   arg, ret, held, histVars>>

\* Mutant: canon_eos_destroy takes the source's mutex before it joins the
\* source's thread.
canon_eos_destroy_signal_Locked(t) ==
    /\ pc[t] = "idle" /\ ~destroyed
    /\ eos.thread_running
    /\ eos_mutex = "free" /\ eos_mutex' = t
    /\ eos' = [eos EXCEPT !.thread_running = FALSE]
    /\ pc' = Set(t, "eos_join")
    /\ UNCHANGED <<camera, format, capture_thread, mutex, queueVars, active,
                   thread_running, statVars, camVars, clock, convVars,
                   sessVars, apiVars, detVars, sink, plugin, arg, ret, held,
                   histVars>>

\* canon_eos_destroy, lines 224-225: if the source's thread runs, its flag
\* is cleared (the source's mutex is not taken).
canon_eos_destroy_signal(t) ==
    /\ pc[t] = "idle" /\ ~destroyed
    /\ eos.thread_running
    /\ eos' = [eos EXCEPT !.thread_running = FALSE]
    /\ pc' = Set(t, "eos_join")
    /\ UNCHANGED <<camera, format, capture_thread, mutex, queueVars, active,
                   thread_running, statVars, camVars, clock, convVars,
                   sessVars, apiVars, detVars, eos_mutex, sink, plugin, arg,
                   ret, held, histVars>>

\* Line 226: pthread_join returns once the source's thread has terminated.
canon_eos_destroy_join(t) ==
    /\ pc[t] = "eos_join"
    /\ \E c \in Cons :
          /\ pc[c] = "exited"
          /\ pc' = [pc EXCEPT ![t] = "eos_joined", ![c] = "none"]
    /\ UNCHANGED <<camera, format, capture_thread, mutex, queueVars, active,
                   thread_running, statVars, camVars, devVars, arg, ret,
                   held, histVars>>

\* canon_eos_destroy, lines 229-234, with no thread of the source left:
\* the source's mutex is taken (it is released when the source is gone,
\* lines 244-247) and the camera is disconnected and destroyed before the
\* pipeline is.
canon_eos_destroy(t) ==
    /\ \/ pc[t] = "idle" /\ ~eos.thread_running
       \/ pc[t] = "eos_joined"
    /\ ~destroyed
    /\ eos_mutex = "free" /\ eos_mutex' = t
    /\ destroyed' = TRUE
    /\ cam' = TearDownCamera
    /\ pc' = Set(t, "vs_destroy")
    /\ UNCHANGED <<camera, format, capture_thread, mutex, queueVars, active,
                   thread_running, statVars, eos_camera, uaf, clock, convVars,
                   sessVars, apiVars, detVars, eos, sink, plugin, arg, ret,
                   held, histVars>>

\* canon_eos_destroy, lines 236-238: video_source_destroy calls
\* video_source_stop, which starts by taking the pipeline mutex.
video_source_destroy(t) ==
    /\ pc[t] = "vs_destroy"
    /\ mutex = "free" /\ mutex' = t
    /\ pc' = Set(t, "stop_cs")
    /\ UNCHANGED <<camera, format, capture_thread, queueVars, active,
                   thread_running, statVars, camVars, devVars, arg, ret, held,
                   histVars>>

\* The pipeline together with the glue's teardown paths: the control
\* thread initialises, starts and stops the pipeline on the source's
\* camera, changes the device path and destroys the source.
NextGlue ==
    \/ \E t \in Threads : mutex_lock(t)
    \/ \E f \in Formats : CallInit(CTL, f)
    \/ CallStart(CTL)
    \/ CallStop(CTL)
    \/ video_source_init(CTL)
    \/ video_source_start(CTL)
    \/ video_source_stop_signal(CTL)
    \/ video_source_stop_join(CTL)
    \/ video_source_stop_live_view(CTL)
    \/ canon_eos_update(CTL)
    \/ canon_eos_destroy(CTL)
    \/ video_source_destroy(CTL)
    \/ \E p \in Prod : capture_loop(p)
    \/ \E p \in Prod : capture_frame(p)
    \/ \E p \in Prod : capture_drop(p)
    \/ \E p \in Prod : capture_enqueue(p)

SpecGlue == Init /\ [][NextGlue]_vars

\* ------------------------------ the source and its thread (plugin-main.c)
\* canon_eos_activate: under the source's mutex the source becomes active
\* and, if it has a camera and no thread, its thread is created.
canon_eos_activate(t) ==
    /\ pc[t] = "idle" /\ ~destroyed
    /\ eos_mutex = "free"
    /\ IF ~eos.thread_running /\ eos_camera # NULL
       THEN /\ \E c \in Cons : pc[c] = "none"
            /\ eos' = [eos EXCEPT !.active = TRUE, !.thread_running = TRUE]
            /\ pc' = [pc EXCEPT ![CHOOSE c \in Cons : pc[c] = "none"] = "et_test"]
       ELSE /\ eos' = [eos EXCEPT !.active = TRUE]
            /\ UNCHANGED pc
    /\ UNCHANGED <<camera, format, capture_thread, mutex, queueVars, active,
                   thread_running, statVars, camVars, clock, convVars,
                   sessVars, apiVars, detVars, eos_mutex, sink, plugin, arg,
                   ret, held, histVars>>

\* canon_eos_deactivate: under the source's mutex active is cleared.
canon_eos_deactivate(t) ==
    /\ pc[t] = "idle" /\ ~destroyed
    /\ eos_mutex = "free"
    /\ eos' = [eos EXCEPT !.active = FALSE]
    /\ UNCHANGED <<camera, format, capture_thread, mutex, queueVars, active,
                   thread_running, statVars, camVars, clock, convVars,
                   sessVars, apiVars, detVars, eos_mutex, sink, plugin, pc,
                   arg, ret, held, histVars>>

\* canon_eos_capture_thread, line 105: while (source->thread_running)
eos_thread_test(c) ==
    /\ pc[c] = "et_test"
    /\ pc' = Set(c, IF eos.thread_running THEN "et_lock" ELSE "exited")
    /\ UNCHANGED <<camera, format, capture_thread, mutex, queueVars, active,
                   thread_running, statVars, camVars, devVars, arg, ret,
                   held, histVars>>

\* Lines 106-108: the source's mutex is taken; with the source active and
\* a camera present the thread is about to call video_source_get_frame.
eos_thread_lock(c) ==
    /\ pc[c] = "et_lock"
    /\ eos_mutex = "free" /\ eos_mutex' = c
    /\ IF eos.active /\ eos_camera # NULL
       THEN pc' = Set(c, "idle") /\ ret' = Return(c, "call")
       ELSE pc' = Set(c, "et_unlock") /\ UNCHANGED ret
    /\ UNCHANGED <<camera, format, capture_thread, mutex, queueVars, active,
                   thread_running, statVars, camVars, clock, convVars,
                   sessVars, apiVars, detVars, eos, sink, plugin, arg, held,
                   histVars>>

\* Line 111: the call of video_source_get_frame.
eos_thread_get_frame(c) ==
    /\ eos_mutex = c /\ ret[c] = "call"
    /\ CallGetFrame(c)

\* Lines 112-120, after CANON_SUCCESS: the frame's width and height are set
\* from the source's settings and the frame is given to the host.
eos_thread_output_video(c) ==
    /\ pc[c] = "idle" /\ eos_mutex = c /\ ret[c] = "SUCCESS"
    /\ sink' = [slot |-> delivered[Len(delivered)].slot,
                width |-> eos.width, height |-> eos.height]
    /\ eos' = [eos EXCEPT !.frame_count = @ + 1]
    /\ pc' = Set(c, "et_release")
    /\ UNCHANGED <<camera, format, capture_thread, mutex, queueVars, active,
                   thread_running, statVars, camVars, clock, convVars,
                   sessVars, apiVars, detVars, eos_mutex, plugin, arg, ret,
                   held, histVars>>

\* Line 122: the call of video_source_release_frame.
eos_thread_release_frame(c) ==
    /\ pc[c] = "et_release"
    /\ mutex = "free" /\ mutex' = c
    /\ pc' = Set(c, "rf_cs") /\ ret' = Return(c, "-")
    /\ UNCHANGED <<camera, format, capture_thread, queueVars, active,
                   thread_running, statVars, camVars, devVars, arg, held,
                   histVars>>

\* Lines 126-128: the source's mutex is released and the thread sleeps one
\* frame interval.
eos_thread_unlock(c) ==
    /\ eos_mutex = c
    /\ \/ pc[c] = "et_unlock"
       \/ pc[c] = "idle"
          /\ ret[c] \in {"void", "DISCONNECTED", "TIMEOUT", "UNKNOWN"}
    /\ eos_mutex' = "free"
    /\ pc' = Set(c, "et_test")
    /\ UNCHANGED <<camera, format, capture_thread, mutex, queueVars, active,
                   thread_running, statVars, camVars, clock, convVars,
                   sessVars, apiVars, detVars, eos, sink, plugin, arg, ret,
                   held, histVars>>

\* video-source.c 290-296: pthread_cond_timedwait fails with an error other
\* than ETIMEDOUT; the mutex, which the caller still owns, is released and
\* get_frame returns Unknown.
cond_timedwait_error(c) ==
    /\ pc[c] = "gf_cs" /\ mutex = c
    /\ active /\ frame_count = 0
    /\ mutex' = "free"
    /\ pc' = Set(c, "idle") /\ ret' = Return(c, "UNKNOWN")
    /\ UNCHANGED <<camera, format, capture_thread, queueVars, active,
                   thread_running, statVars, camVars, devVars, arg, held,
                   histVars>>

\* obs_module_load (line 295) and obs_module_unload (line 331) begin with
\* pthread_mutex_lock(&g_plugin_mutex).
CallModule(t, f) ==
    /\ pc[t] = "idle"
    /\ plugin.mutex = "free"
    /\ plugin' = [plugin EXCEPT !.mutex = t]
    /\ pc' = Set(t, f) /\ ret' = Return(t, "-")
    /\ UNCHANGED <<camera, format, capture_thread, mutex, queueVars, active,
                   thread_running, statVars, camVars, clock, convVars,
                   sessVars, apiVars, detVars, eos, eos_mutex, sink, arg,
                   held, histVars>>

\* Mutant: the failure returns of obs_module_load keep the mutex.
PluginMutexAtReturn_KeptOnFailure(t, path) ==
    IF path \in {"library", "detector"} THEN t ELSE "free"

\* The owner of g_plugin_mutex when obs_module_load or obs_module_unload
\* returns on the given path: each return is preceded by
\* pthread_mutex_unlock (lines 298, 306, 314, 323, 334, 349).
PluginMutexAtReturn(t, path) == "free"

\* obs_module_load, lines 297-326: already initialised; the library fails
\* to initialise; the detector cannot be created (the library is cleaned
\* up); or the plugin is loaded.
obs_module_load(t) ==
    /\ pc[t] = "load" /\ plugin.mutex = t
    /\ pc' = Set(t, "idle")
    /\ IF plugin.initialized
       THEN /\ plugin' = [plugin EXCEPT !.mutex = PluginMutexAtReturn(t, "loaded")]
            /\ ret' = Return(t, "true")
       ELSE \/ /\ plugin' = [plugin EXCEPT
                                !.mutex = PluginMutexAtReturn(t, "library")]
               /\ ret' = Return(t, "false")
            \/ /\ plugin' = [plugin EXCEPT
                                !.mutex = PluginMutexAtReturn(t, "detector")]
               /\ ret' = Return(t, "false")
            \/ /\ plugin' = [mutex |-> PluginMutexAtReturn(t, "success"),
                              initialized |-> TRUE, library |-> TRUE,
                              detector |-> TRUE]
               /\ ret' = Return(t, "true")
    /\ UNCHANGED <<camera, format, capture_thread, mutex, queueVars, active,
                   thread_running, statVars, camVars, clock, convVars,
                   sessVars, apiVars, detVars, eos, eos_mutex, sink, arg,
                   held, histVars>>

\* obs_module_unload, lines 333-351: nothing to do, or the detector is
\* stopped and destroyed and the library cleaned up.
obs_module_unload(t) ==
    /\ pc[t] = "unload" /\ plugin.mutex = t
    /\ pc' = Set(t, "idle") /\ ret' = Return(t, "void")
    /\ IF ~plugin.initialized
       THEN plugin' = [plugin EXCEPT !.mutex = PluginMutexAtReturn(t, "unloaded")]
       ELSE plugin' = [mutex |-> PluginMutexAtReturn(t, "success"),
                       initialized |-> FALSE, library |-> FALSE,
                       detector |-> FALSE]
    /\ UNCHANGED <<camera, format, capture_thread, mutex, queueVars, active,
                   thread_running, statVars, camVars, clock, convVars,
                   sessVars, apiVars, detVars, eos, eos_mutex, sink, arg,
                   held, histVars>>

\* After canon_eos_create: as Init, and the source has no thread yet.
InitSource ==
    /\ PipelineInit
    /\ pc = [t \in Threads |-> IF t \in Controllers THEN "idle" ELSE "none"]
    /\ conv_in = NoImage /\ conv_out = NoOutput
    /\ SessionInit
    /\ ApiInit
    /\ EosInit
    /\ DetectorInit

\* The source as the host drives it: update, activate, deactivate and
\* destroy on the host's thread, and the source's own thread.
NextSource ==
    \/ canon_eos_update(CTL)
    \/ canon_eos_activate(CTL)
    \/ canon_eos_deactivate(CTL)
    \/ canon_eos_destroy_signal(CTL)
    \/ canon_eos_destroy_join(CTL)
    \/ canon_eos_destroy(CTL)
    \/ video_source_destroy(CTL)
    \/ video_source_stop_signal(CTL)
    \/ \E c \in Cons : eos_thread_test(c)
    \/ \E c \in Cons : eos_thread_lock(c)
    \/ \E c \in Cons : eos_thread_get_frame(c)
    \/ \E c \in Cons : video_source_get_frame(c)
    \/ \E c \in Cons : eos_thread_unlock(c)

\* Scheduling: the source's thread keeps running and gets the mutexes it
\* asks for; a pthread_join whose thread has terminated returns.
FairSource ==
    /\ \A c \in Cons : WF_vars(eos_thread_test(c))
    /\ \A c \in Cons : SF_vars(eos_thread_lock(c))
    /\ \A c \in Cons : SF_vars(eos_thread_get_frame(c))
    /\ \A c \in Cons : WF_vars(video_source_get_frame(c))
    /\ \A c \in Cons : WF_vars(eos_thread_unlock(c))
    /\ WF_vars(canon_eos_destroy_join(CTL))

SpecSource == InitSource /\ [][NextSource]_vars /\ FairSource

\* The source's thread on a pipeline that is initialised and started (the
\* host's thread makes the calls plugin-main.c leaves out).
NextSink ==
    \/ \E t \in Threads : mutex_lock(t)
    \/ \E f \in Formats : CallInit(CTL, f)
    \/ CallStart(CTL)
    \/ CallStop(CTL)
    \/ video_source_init(CTL)
    \/ video_source_start(CTL)
    \/ video_source_stop_signal(CTL)
    \/ video_source_stop_join(CTL)
    \/ video_source_stop_live_view(CTL)
    \/ canon_eos_activate(CTL)
    \/ canon_eos_deactivate(CTL)
    \/ \E c \in Cons : eos_thread_test(c)
    \/ \E c \in Cons : eos_thread_lock(c)
    \/ \E c \in Cons : eos_thread_get_frame(c)
    \/ \E c \in Cons : video_source_get_frame(c)
    \/ \E c \in Cons : cond_timedwait_timeout(c)
    \/ \E c \in Cons : cond_timedwait_spurious(c)
    \/ \E c \in Cons : cond_timedwait_error(c)
    \/ \E c \in Cons : video_source_get_frame_timeout(c)
    \/ \E c \in Cons : eos_thread_output_video(c)
    \/ \E c \in Cons : eos_thread_release_frame(c)
    \/ \E c \in Cons : video_source_release_frame(c)
    \/ \E c \in Cons : eos_thread_unlock(c)
    \/ \E p \in Prod : capture_loop(p)
    \/ \E p \in Prod : capture_frame(p)
    \/ \E p \in Prod : capture_drop(p)
    \/ \E p \in Prod : capture_enqueue(p)

SpecSink == InitSource /\ [][NextSink]_vars

\* The thread is at a pthread_mutex_lock of the source's mutex
\* (plugin-main.c 106, 229), at one of the pipeline's mutex (video-source.c
\* 225, 269, 337, 437; after a wait), or at a pthread_join (plugin-main.c
\* 226, video-source.c 239).
AtSourceLock(t) == pc[t] \in {"et_lock", "eos_joined"}
AtPipelineLock(t) ==
    \/ pc[t] \in DOMAIN AfterLock \cup {"et_release", "vs_destroy"}
    \/ pc[t] = "idle" /\ ret[t] = "call"
AtJoin(t) == pc[t] \in {"eos_join", "stop_join"}

\* The threads t cannot proceed without: the owner of the mutex it asks
\* for, or the thread it joins while that thread has not terminated.
WaitsFor(t) ==
    IF AtSourceLock(t) THEN {eos_mutex} \ {"free"}
    ELSE IF AtPipelineLock(t) THEN {mutex} \ {"free"}
    ELSE IF pc[t] = "eos_join" THEN {c \in Cons : pc[c] # "exited"}
    ELSE IF pc[t] = "stop_join" /\ thread_running
    THEN {capture_thread} \ {p \in Prod : pc[p] = "exited"}
    ELSE {}

\* The source on a started pipeline until the host destroys it: every lock
\* and every join of the two files.
NextLock ==
    \/ \E t \in Threads : mutex_lock(t)
    \/ \E f \in Formats : CallInit(CTL, f)
    \/ CallStart(CTL)
    \/ video_source_init(CTL)
    \/ video_source_start(CTL)
    \/ canon_eos_activate(CTL)
    \/ canon_eos_deactivate(CTL)
    \/ canon_eos_destroy_signal(CTL)
    \/ canon_eos_destroy_join(CTL)
    \/ canon_eos_destroy(CTL)
    \/ video_source_destroy(CTL)
    \/ video_source_stop_signal(CTL)
    \/ video_source_stop_join(CTL)
    \/ video_source_stop_live_view(CTL)
    \/ \E c \in Cons : eos_thread_test(c)
    \/ \E c \in Cons : eos_thread_lock(c)
    \/ \E c \in Cons : eos_thread_get_frame(c)
    \/ \E c \in Cons : video_source_get_frame(c)
    \/ \E c \in Cons : cond_timedwait_timeout(c)
    \/ \E c \in Cons : cond_timedwait_spurious(c)
    \/ \E c \in Cons : video_source_get_frame_timeout(c)
    \/ \E c \in Cons : eos_thread_output_video(c)
    \/ \E c \in Cons : eos_thread_release_frame(c)
    \/ \E c \in Cons : video_source_release_frame(c)
    \/ \E c \in Cons : eos_thread_unlock(c)
    \/ \E p \in Prod : capture_loop(p)
    \/ \E p \in Prod : capture_frame(p)
    \/ \E p \in Prod : capture_drop(p)
    \/ \E p \in Prod : capture_enqueue(p)

\* Scheduling: a thread that can take a step of the function it is in
\* takes it, the device answers canon_camera_capture_frame, the deadline of
\* a pthread_cond_timedwait passes, and a thread at pthread_mutex_lock gets
\* the mutex if the mutex is free again and again.  Nothing is assumed
\* about the host starting a call.
FairLock ==
    /\ WF_vars(\/ video_source_init(CTL) \/ video_source_start(CTL)
               \/ video_source_stop_signal(CTL) \/ video_source_stop_join(CTL)
               \/ video_source_stop_live_view(CTL)
               \/ canon_eos_destroy_join(CTL))
    /\ SF_vars(\/ pc[CTL] = "eos_joined" /\ canon_eos_destroy(CTL)
               \/ video_source_destroy(CTL))
    /\ \A c \in Cons :
          /\ WF_vars(\/ eos_thread_test(c) \/ video_source_get_frame(c)
                     \/ video_source_get_frame_timeout(c)
                     \/ eos_thread_output_video(c)
                     \/ video_source_release_frame(c) \/ eos_thread_unlock(c))
          /\ SF_vars(\/ eos_thread_lock(c) \/ eos_thread_get_frame(c)
                     \/ eos_thread_release_frame(c) \/ mutex_lock(c))
          /\ SF_vars(cond_timedwait_timeout(c))
    /\ \A p \in Prod :
          /\ WF_vars(\/ capture_loop(p) \/ capture_frame(p)
                     \/ capture_drop(p) \/ capture_enqueue(p))
          /\ SF_vars(mutex_lock(p))

SpecLock == InitSource /\ [][NextLock]_vars /\ FairLock

\* The pipeline with every return of get_frame, and the loading and
\* unloading of the plugin on the host's thread.
NextUnlock ==
    \/ \E t \in Threads : mutex_lock(t)
    \/ \E f \in Formats : CallInit(CTL, f)
    \/ CallStart(CTL)
    \/ CallStop(CTL)
    \/ video_source_init(CTL)
    \/ video_source_start(CTL)
    \/ video_source_stop_signal(CTL)
    \/ video_source_stop_join(CTL)
    \/ video_source_stop_live_view(CTL)
    \/ \E f \in {"load", "unload"} : CallModule(CTL, f)
    \/ obs_module_load(CTL)
    \/ obs_module_unload(CTL)
    \/ \E c \in Cons : CallGetFrame(c)
    \/ \E c \in Cons : video_source_get_frame(c)
    \/ \E c \in Cons : cond_timedwait_timeout(c)
    \/ \E c \in Cons : cond_timedwait_spurious(c)
    \/ \E c \in Cons : cond_timedwait_error(c)
    \/ \E c \in Cons : video_source_get_frame_timeout(c)
    \/ \E c \in Cons : CallReleaseFrame(c)
    \/ \E c \in Cons : video_source_release_frame(c)
    \/ \E p \in Prod : capture_loop(p)
    \/ \E p \in Prod : capture_frame(p)
    \/ \E p \in Prod : capture_drop(p)
    \/ \E p \in Prod : capture_enqueue(p)

SpecUnlock == Init /\ [][NextUnlock]_vars

\* ------------------------------------- convert_jpeg_to_nv12 in isolation
\* #define MAX_FRAME_SIZE (3840 * 2160 * 4): the size of every slot.
MAX_FRAME_SIZE == 3840 * 2160 * 4

\* Decoded sizes the converter is run on (a JPEG header holds 16-bit sizes).
ConvWidths == {1, 2, 3, 640, 1024, 1280, 1920, 3840, 4096, 8192, 40000}
ConvHeights == {1, 2, 3, 480, 576, 720, 1080, 2160, 4096, 5464, 40000}

\* actual_width * actual_height * 3 in uint32_t arithmetic, for a product
\* p below 2^31: p * 3 mod 2^32.  (3 * 1431655765 = 2^32 - 1; the products
\* used lie below 2^31 / 3 or from 1431655766 on.)
Mul3_u32(p) ==
    IF p <= 715827882 THEN 3 * p ELSE 3 * (p - 1431655765) - 1

\* Lines 548-561: the Y plane takes the offsets 0 .. w*h - 1 of the
\* destination.
YPlaneBytes(w, h) == w * h

\* Lines 566-583: uv_idx = (i / 2) * w + (j / 2) * 2 for the even i < h and
\* the even j < w; bytes uv_idx and uv_idx + 1 of the plane at offset w*h
\* are written.  The number of bytes of that plane up to the last one
\* written.
UVPlaneBytes(w, h) == ((h - 1) \div 2) * w + ((w - 1) \div 2) * 2 + 2

\* Lines 568-569: the values i (with n = h) and j (with n = w) take in the
\* chroma loops are the even numbers below n; the first, the second and
\* the last of them.
LoopEnds(n) == {k \in {0, 2, ((n - 1) \div 2) * 2} : k < n}

\* Lines 576-578: uv_idx = uv_row * actual_width + uv_col * 2, the offset in
\* the chroma plane of the U byte written for (i, j); V goes to uv_idx + 1.
uv_idx(w, i, j) == (i \div 2) * w + (j \div 2) * 2

\* The converter's test of the decoded size against the destination: it
\* has none (the destination's size is not even a parameter).
SizeCheck(w, h) == TRUE

\* convert_jpeg_to_nv12 on an image whose header decodes: the RGB buffer is
\* allocated (malloc may fail), then both planes are written.
convert_jpeg_to_nv12 ==
    /\ conv_in # NoImage /\ conv_out = NoOutput
    /\ LET w == conv_in.width
           h == conv_in.height
       IN IF ~SizeCheck(w, h)
          THEN conv_out' = [NoOutput EXCEPT !.err = "INVALID_PARAM"]
          ELSE \/ conv_out' = [NoOutput EXCEPT !.err = "MEMORY",
                                              !.rgb_alloc = Mul3_u32(w * h)]
               \/ conv_out' = [err |-> "SUCCESS",
                               y_bytes |-> YPlaneBytes(w, h),
                               uv_bytes |-> UVPlaneBytes(w, h),
                               rgb_alloc |-> Mul3_u32(w * h)]
    /\ UNCHANGED <<camera, format, capture_thread, mutex, queueVars, active,
                   thread_running, statVars, camVars, clock, conv_in, sessVars,
                   apiVars, detVars, eosVars, pc, arg, ret, held, histVars>>

\* The producer hands the next image to the converter.
NextImage ==
    /\ conv_out # NoOutput
    /\ \E w \in ConvWidths, h \in ConvHeights :
           conv_in' = [width |-> w, height |-> h]
    /\ conv_out' = NoOutput
    /\ UNCHANGED <<camera, format, capture_thread, mutex, queueVars, active,
                   thread_running, statVars, camVars, clock, sessVars, apiVars,
                   detVars, eosVars, pc, arg, ret, held, histVars>>

InitConv ==
    /\ PipelineInit
    /\ pc = [t \in Threads |-> IF t \in Prod THEN "none" ELSE "idle"]
    /\ SessionInit
    /\ ApiInit
    /\ EosInit
    /\ DetectorInit
    /\ conv_in \in [width : ConvWidths, height : ConvHeights]
    /\ conv_out = NoOutput

NextConv == convert_jpeg_to_nv12 \/ NextImage

SpecConv == InitConv /\ [][NextConv]_vars

\* ------------------------------------- a device that yields no image
\* Mutant: the producer thread gives up after a failed capture.
capture_frame_fails_Exit(p) ==
    /\ pc[p] = "capture"
    /\ uaf' = (uaf \/ Freed(camera))
    /\ \E err \in canon_camera_capture_frame(camera) \ {"SUCCESS"} :
           ret' = Return(p, err)
    /\ pc' = Set(p, "exited")
    /\ UNCHANGED <<camera, format, capture_thread, mutex, queueVars, active,
                   thread_running, statVars, cam, glueVars, clock, auxVars,
                   arg, held, histVars>>

\* Lines 419-433 when canon_camera_capture_frame returns an error: the
\* error is logged (unless it is Timeout), the thread sleeps one frame
\* interval and goes round the loop.  ret records the error.
capture_frame_fails(p) ==
    /\ pc[p] = "capture"
    /\ uaf' = (uaf \/ Freed(camera))
    /\ \E err \in canon_camera_capture_frame(camera) \ {"SUCCESS"} :
           ret' = Return(p, err)
    /\ pc' = Set(p, "loop")
    /\ UNCHANGED <<camera, format, capture_thread, mutex, queueVars, active,
                   thread_running, statVars, cam, glueVars, clock, auxVars,
                   arg, held, histVars>>

\* The pipeline on a device whose capture_frame fails on every call.
NextFail ==
    \/ \E t \in Threads : mutex_lock(t)
    \/ \E f \in Formats : CallInit(CTL, f)
    \/ CallStart(CTL)
    \/ CallStop(CTL)
    \/ video_source_init(CTL)
    \/ video_source_start(CTL)
    \/ video_source_stop_signal(CTL)
    \/ video_source_stop_join(CTL)
    \/ video_source_stop_live_view(CTL)
    \/ \E c \in Cons : CallGetFrame(c)
    \/ \E c \in Cons : video_source_get_frame(c)
    \/ \E c \in Cons : cond_timedwait_timeout(c)
    \/ \E c \in Cons : cond_timedwait_spurious(c)
    \/ \E c \in Cons : video_source_get_frame_timeout(c)
    \/ \E p \in Prod : capture_loop(p)
    \/ \E p \in Prod : capture_frame_fails(p)

\* Scheduling: the producer thread keeps running, and a pthread_join whose
\* thread has terminated returns.
FairFail ==
    /\ \A p \in Prod : WF_vars(capture_loop(p))
    /\ \A p \in Prod : WF_vars(capture_frame_fails(p))
    /\ WF_vars(video_source_stop_join(CTL))

SpecFail == Init /\ [][NextFail]_vars /\ FairFail

\* --------------------------------- canon-camera.c at the level of its lock
\* Every variable of the pipeline, the glue and the converter.
pipeVars == <<camera, format, capture_thread, mutex, queueVars, active,
              thread_running, statVars, camVars, clock, convVars, apiVars,
              detVars, eosVars, arg, held, histVars>>

\* The entry points that lock the session and talk to the device.
OpNames == {"connect", "disconnect", "start_live_view", "stop_live_view",
            "capture_frame"}

\* A thread calls an entry point on a session; the call starts at the
\* function's pthread_mutex_lock(&camera->mutex).
SessionCall(t) ==
    /\ pc[t] = "idle"
    /\ \E n \in OpNames, k \in Cams, p \in Paths \cup {""} :
          /\ (n = "connect") = (p # "")
          /\ op' = [op EXCEPT ![t] = [name |-> n, k |-> k, path |-> p]]
    /\ pc' = Set(t, "s_lock") /\ ret' = Return(t, "-")
    /\ UNCHANGED <<pipeVars, sess, sess_mutex, responsive>>

\* Mutant: the entry point does not wait for the session lock.
SessionLockFree_Ignored(k) == TRUE

\* pthread_mutex_lock(&camera->mutex) returns when the mutex is free.
SessionLockFree(k) == sess_mutex[k] = "free"

\* The entry point returns v at once (lock, test, unlock).
ReturnAtOnce(t, v) ==
    /\ pc' = Set(t, "idle") /\ ret' = Return(t, v)
    /\ op' = [op EXCEPT ![t] = NoOp]
    /\ UNCHANGED <<sess, sess_mutex>>

\* The entry point keeps the lock and starts its device calls.
EnterDeviceCall(t, k) ==
    /\ sess_mutex' = [sess_mutex EXCEPT ![k] = t]
    /\ pc' = Set(t, "s_io")
    /\ UNCHANGED <<ret, op>>

\* The entry point has finished: unlock and return v.
LeaveDeviceCall(t, k, v) ==
    /\ sess_mutex' = [sess_mutex EXCEPT ![k] = "free"]
    /\ pc' = Set(t, "idle") /\ ret' = Return(t, v)
    /\ op' = [op EXCEPT ![t] = NoOp]

\* A thread is at the lock of entry point n / inside its device calls.
AtLock(t, n) == pc[t] = "s_lock" /\ op[t].name = n /\ SessionLockFree(op[t].k)
InDeviceCall(t, n) == pc[t] = "s_io" /\ op[t].name = n

\* The devices some session other than k holds open.
HeldByOthers(k) ==
    {sess[j].gphoto_camera : j \in {x \in Cams \ {k} : sess[x].connected}}

\* canon_camera_connect, lines 162-170: Busy when connected; otherwise the
\* path and the configuration are stored.
connect_begin(t) ==
    /\ AtLock(t, "connect")
    /\ IF sess[op[t].k].connected
       THEN ReturnAtOnce(t, "CAMERA_BUSY")
       ELSE /\ sess' = [sess EXCEPT ![op[t].k].device_path = op[t].path]
            /\ EnterDeviceCall(t, op[t].k)
    /\ UNCHANGED <<pipeVars, responsive>>

\* canon_camera_connect, lines 172-232.  One of the library calls fails and
\* what was acquired is released; or gp_camera_init, for which no port has
\* been set, opens a camera it detects itself: it fails if another session
\* holds that device open.
connect_end(t) ==
    /\ InDeviceCall(t, "connect") /\ responsive
    /\ LET k == op[t].k IN
       \/ /\ \E e \in {"MEMORY", "UNKNOWN"} : LeaveDeviceCall(t, k, e)
          /\ UNCHANGED sess
       \/ \E d \in Devs :
             IF d \in HeldByOthers(k)
             THEN LeaveDeviceCall(t, k, "UNKNOWN") /\ UNCHANGED sess
             ELSE /\ sess' = [sess EXCEPT ![k].connected = TRUE,
                                          ![k].gphoto_camera = d]
                  /\ LeaveDeviceCall(t, k, "SUCCESS")
    /\ UNCHANGED <<pipeVars, responsive>>

\* canon_camera_disconnect, lines 241-246.
disconnect_begin(t) ==
    /\ AtLock(t, "disconnect")
    /\ IF ~sess[op[t].k].connected
       THEN ReturnAtOnce(t, "void")
       ELSE EnterDeviceCall(t, op[t].k) /\ UNCHANGED sess
    /\ UNCHANGED <<pipeVars, responsive>>

\* canon_camera_disconnect, lines 248-271: gp_camera_exit, the handle and
\* the lists are released.
disconnect_end(t) ==
    /\ InDeviceCall(t, "disconnect") /\ responsive
    /\ sess' = [sess EXCEPT ![op[t].k].connected = FALSE,
                            ![op[t].k].live_view_active = FALSE,
                            ![op[t].k].gphoto_camera = NULL]
    /\ LeaveDeviceCall(t, op[t].k, "void")
    /\ UNCHANGED <<pipeVars, responsive>>

\* canon_camera_start_live_view, lines 314-324.
start_live_view_begin(t) ==
    /\ AtLock(t, "start_live_view")
    /\ IF ~sess[op[t].k].connected THEN ReturnAtOnce(t, "DISCONNECTED")
       ELSE IF sess[op[t].k].live_view_active THEN ReturnAtOnce(t, "SUCCESS")
       ELSE EnterDeviceCall(t, op[t].k) /\ UNCHANGED sess
    /\ UNCHANGED <<pipeVars, responsive>>

\* canon_camera_start_live_view, lines 326-348: gp_camera_get_config may
\* fail; otherwise the viewfinder is switched on.
start_live_view_end(t) ==
    /\ InDeviceCall(t, "start_live_view") /\ responsive
    /\ \/ /\ \E e \in {"TIMEOUT", "UNKNOWN"} : LeaveDeviceCall(t, op[t].k, e)
          /\ UNCHANGED sess
       \/ /\ sess' = [sess EXCEPT ![op[t].k].live_view_active = TRUE]
          /\ LeaveDeviceCall(t, op[t].k, "SUCCESS")
    /\ UNCHANGED <<pipeVars, responsive>>

\* canon_camera_stop_live_view, lines 357-362.
stop_live_view_begin(t) ==
    /\ AtLock(t, "stop_live_view")
    /\ IF ~sess[op[t].k].connected \/ ~sess[op[t].k].live_view_active
       THEN ReturnAtOnce(t, "void")
       ELSE EnterDeviceCall(t, op[t].k) /\ UNCHANGED sess
    /\ UNCHANGED <<pipeVars, responsive>>

\* canon_camera_stop_live_view, lines 364-381.
stop_live_view_end(t) ==
    /\ InDeviceCall(t, "stop_live_view") /\ responsive
    /\ sess' = [sess EXCEPT ![op[t].k].live_view_active = FALSE]
    /\ LeaveDeviceCall(t, op[t].k, "void")
    /\ UNCHANGED <<pipeVars, responsive>>

\* canon_camera_capture_frame, lines 393-403.
capture_frame_begin(t) ==
    /\ AtLock(t, "capture_frame")
    /\ IF ~sess[op[t].k].connected THEN ReturnAtOnce(t, "DISCONNECTED")
       ELSE IF ~sess[op[t].k].live_view_active
       THEN ReturnAtOnce(t, "NOT_SUPPORTED")
       ELSE EnterDeviceCall(t, op[t].k) /\ UNCHANGED sess
    /\ UNCHANGED <<pipeVars, responsive>>

\* canon_camera_capture_frame, lines 405-437: gp_camera_capture_preview
\* returns an image or an error of the library.
capture_frame_end(t) ==
    /\ InDeviceCall(t, "capture_frame") /\ responsive
    /\ \E e \in {"SUCCESS", "TIMEOUT", "UNKNOWN"} :
           LeaveDeviceCall(t, op[t].k, e)
    /\ UNCHANGED <<pipeVars, sess, responsive>>

\* The device stops answering: a library call that is waiting for it, or
\* is made from now on, does not return (no entry point sets a deadline).
device_stops_responding ==
    /\ responsive
    /\ responsive' = FALSE
    /\ UNCHANGED <<pipeVars, pc, ret, sess, sess_mutex, op>>

InitCam ==
    /\ PipelineInit
    /\ pc = [t \in Threads |-> IF t \in SessThreads \cup Cons THEN "idle"
                                                               ELSE "none"]
    /\ conv_in = NoImage /\ conv_out = NoOutput
    /\ SessionInit
    /\ ApiInit
    /\ EosInit
    /\ DetectorInit

\* The steps of thread t inside canon-camera.c.
SessionStep(t) ==
    \/ connect_begin(t) \/ connect_end(t)
    \/ disconnect_begin(t) \/ disconnect_end(t)
    \/ start_live_view_begin(t) \/ start_live_view_end(t)
    \/ stop_live_view_begin(t) \/ stop_live_view_end(t)
    \/ capture_frame_begin(t) \/ capture_frame_end(t)

\* Two threads call the entry points of two sessions in any order.
NextCam ==
    \/ \E t \in SessThreads : SessionCall(t)
    \/ \E t \in SessThreads : connect_begin(t)
    \/ \E t \in SessThreads : connect_end(t)
    \/ \E t \in SessThreads : disconnect_begin(t)
    \/ \E t \in SessThreads : disconnect_end(t)
    \/ \E t \in SessThreads : start_live_view_begin(t)
    \/ \E t \in SessThreads : start_live_view_end(t)
    \/ \E t \in SessThreads : stop_live_view_begin(t)
    \/ \E t \in SessThreads : stop_live_view_end(t)
    \/ \E t \in SessThreads : capture_frame_begin(t)
    \/ \E t \in SessThreads : capture_frame_end(t)
    \/ device_stops_responding

\* Scheduling: a thread inside an entry point keeps running and gets the
\* session lock if the lock is free again and again.
FairCam == \A t \in SessThreads : SF_vars(SessionStep(t))

SpecCam == InitCam /\ [][NextCam]_vars /\ FairCam

\* --------------------------- canon-camera.c, one session with its data
\* One thread calls the entry points of one canon_camera_t one after the
\* other; every field of the structure and every object of the library
\* (camera handle, abilities list, port-info list) is followed.
nonApiVars == <<camera, format, capture_thread, mutex, queueVars, active,
                thread_running, statVars, camVars, clock, convVars, sessVars,
                detVars, eosVars, arg, held, histVars>>

\* The entry points called.
ApiNames == {"connect", "disconnect", "start_live_view", "stop_live_view",
             "capture_frame", "destroy"}

\* Configurations passed to connect: inside the capabilities set by
\* canon_camera_create (3840x2160, 24..60 fps) and outside them.
Configs ==
    {[width |-> 1920, height |-> 1080, fps |-> 30],
     [width |-> 3840, height |-> 2160, fps |-> 60],
     [width |-> 3841, height |-> 2160, fps |-> 30],
     [width |-> 1920, height |-> 2161, fps |-> 24],
     [width |-> 1920, height |-> 1080, fps |-> 0],
     [width |-> 1920, height |-> 1080, fps |-> 61]}

\* buffer_size of the caller and the size of the image the device returns
\* (1920 * 1080 * 3 = 6220800 is the size of the session's frame buffers).
BufferSizes == {1, 1024, 6220800}
ImageSizes == {0, 1, 1023, 1024, 1025, 6220800, 6220801}

\* error_from_gphoto of a negative library result.
GpErrors == {"MEMORY", "TIMEOUT", "NOT_SUPPORTED", "INVALID_PARAM",
             "CAMERA_BUSY", "UNKNOWN"}

\* The library creates an object and stores its address in field f.
gp_new(st, f) ==
    [cc |-> [st.cc EXCEPT ![f] = "live"],
     gp |-> [st.gp EXCEPT !.live = @ + 1]]

\* gp_camera_unref / gp_*_list_free on the address in field f: the object
\* is released and the field keeps the stale address; releasing anything
\* but a live object is a misuse of the library.
gp_release(st, f) ==
    IF st.cc[f] = "live"
    THEN [cc |-> [st.cc EXCEPT ![f] = "released"],
          gp |-> [st.gp EXCEPT !.live = @ - 1]]
    ELSE [cc |-> st.cc, gp |-> [st.gp EXCEPT !.misused = TRUE]]

RECURSIVE gp_release_all(_, _)
gp_release_all(st, fs) ==
    IF fs = <<>> THEN st
    ELSE gp_release_all(gp_release(st, Head(fs)), Tail(fs))

\* The library calls of canon_camera_connect in their order (lines 172,
\* 179, 186, 194, 202, 218) and the field each one fills, if any.
ConnectSteps == 1 .. 6
AcquiredBy ==
    [i \in ConnectSteps |->
        CASE i = 1 -> <<"gphoto_camera">>
          [] i = 2 -> <<"abilities_list">>
          [] i = 4 -> <<"port_info_list">>
          [] OTHER -> <<>>]

\* The state after the first n library calls of connect have succeeded.
RECURSIVE ConnectUpTo(_, _)
ConnectUpTo(st, n) ==
    IF n = 0 THEN st
    ELSE LET before == ConnectUpTo(st, n - 1)
         IN IF AcquiredBy[n] = <<>> THEN before
            ELSE gp_new(before, AcquiredBy[n][1])

\* Mutant: the failure of gp_port_info_list_new forgets the abilities list.
CleanupAt_Leaky(i) ==
    CASE i = 1 -> <<>>
      [] i = 2 -> <<"gphoto_camera">>
      [] i = 3 -> <<"abilities_list", "gphoto_camera">>
      [] i = 4 -> <<"gphoto_camera">>
      [] OTHER -> <<"port_info_list", "abilities_list", "gphoto_camera">>

\* What connect releases when its i-th library call fails (lines 173-177,
\* 180-184, 187-192, 195-200, 203-209, 219-226).
CleanupAt(i) ==
    CASE i = 1 -> <<>>
      [] i = 2 -> <<"gphoto_camera">>
      [] i = 3 -> <<"abilities_list", "gphoto_camera">>
      [] i = 4 -> <<"abilities_list", "gphoto_camera">>
      [] OTHER -> <<"port_info_list", "abilities_list", "gphoto_camera">>

\* The thread enters one of the entry points fns with its arguments.
ApiCallOf(t, fns) ==
    /\ pc[t] = "idle" /\ canon_camera.alloc
    /\ \E fn \in fns, p \in Paths, c \in Configs, b \in BufferSizes :
          /\ fn # "connect" => (p = "usb1" /\ c = DefaultConfig)
          /\ fn # "capture_frame" => b = 1
          /\ fn = "capture_frame" => canon_camera.frame_count < MaxImages
          /\ api' = [fn |-> fn, err |-> "-",
                     path |-> IF fn = "connect" THEN p ELSE "",
                     config |-> IF fn = "connect" THEN c ELSE ZeroConfig,
                     buffer_size |-> IF fn = "capture_frame" THEN b ELSE 0,
                     size |-> 0, bytes_written |-> 0]
    /\ pc' = Set(t, "api")
    /\ UNCHANGED <<nonApiVars, ret, canon_camera, gp_objects>>

ApiCall(t) == ApiCallOf(t, ApiNames)

\* The thread is inside entry point fn.
InApi(t, fn) == pc[t] = "api" /\ api.fn = fn

\* The entry point returns e.
ApiReturn(t, e) ==
    /\ pc' = Set(t, "idle")
    /\ api' = [api EXCEPT !.err = e]

\* Mutant: connect does not look at the connected flag.
ConnectIsBusy_Never == FALSE

\* Lines 164-167: if (camera->connected) return CANON_ERROR_CAMERA_BUSY;
ConnectIsBusy == canon_camera.connected

\* canon_camera_create, lines 118-121: the capabilities of a session
\* (max_width, max_height, min_fps, max_fps).
WithinCapabilities(c) ==
    /\ c.width <= 3840 /\ c.height <= 2160
    /\ c.fps >= 24 /\ c.fps <= 60

\* The test connect applies to *config before storing it: none.
ConfigAccepted(c) == TRUE

\* canon_camera_connect.
api_connect(t) ==
    /\ InApi(t, "connect")
    /\ IF ConnectIsBusy
       THEN ApiReturn(t, "CAMERA_BUSY") /\ UNCHANGED <<canon_camera, gp_objects>>
       ELSE IF ~ConfigAccepted(api.config)
       THEN ApiReturn(t, "INVALID_PARAM")
            /\ UNCHANGED <<canon_camera, gp_objects>>
       ELSE LET st == [cc |-> [canon_camera EXCEPT
                                  !.device_path = api.path,
                                  !.config = api.config],
                       gp |-> gp_objects]
            IN \/ \E i \in ConnectSteps, e \in GpErrors :
                     LET failed == gp_release_all(ConnectUpTo(st, i - 1),
                                                  CleanupAt(i))
                     IN /\ canon_camera' = failed.cc
                        /\ gp_objects' = failed.gp
                        /\ ApiReturn(t, e)
               \/ LET done == ConnectUpTo(st, 6)
                  IN /\ canon_camera' = [done.cc EXCEPT !.connected = TRUE]
                     /\ gp_objects' = done.gp
                     /\ ApiReturn(t, "SUCCESS")
    /\ UNCHANGED <<nonApiVars, ret>>

\* Lines 248-268 of canon_camera_disconnect applied to st: live view is
\* marked inactive; each of the three fields that is not NULL is released
\* and set to NULL; the session is marked disconnected.
DisconnectBody(st) ==
    LET Drop(s, f) ==
            IF s.cc[f] = NULL THEN s
            ELSE LET r == gp_release(s, f)
                 IN [cc |-> [r.cc EXCEPT ![f] = NULL], gp |-> r.gp]
        s1 == Drop(st, "gphoto_camera")
        s2 == Drop(s1, "port_info_list")
        s3 == Drop(s2, "abilities_list")
    IN [cc |-> [s3.cc EXCEPT !.live_view_active = FALSE,
                             !.connected = FALSE],
        gp |-> s3.gp]

\* Mutant: disconnect does not look at the connected flag.
DisconnectIsNoop_Never == FALSE

\* Lines 243-246: if (!camera->connected) return;
DisconnectIsNoop == ~canon_camera.connected

\* canon_camera_disconnect.
api_disconnect(t) ==
    /\ InApi(t, "disconnect")
    /\ IF DisconnectIsNoop
       THEN UNCHANGED <<canon_camera, gp_objects>>
       ELSE LET st == DisconnectBody([cc |-> canon_camera, gp |-> gp_objects])
            IN canon_camera' = st.cc /\ gp_objects' = st.gp
    /\ ApiReturn(t, "void")
    /\ UNCHANGED <<nonApiVars, ret>>

\* canon_camera_destroy: a connected session is disconnected; the frame
\* buffers, the context and the structure are freed.
api_destroy(t) ==
    /\ InApi(t, "destroy")
    /\ LET st == IF canon_camera.connected
                 THEN DisconnectBody([cc |-> canon_camera, gp |-> gp_objects])
                 ELSE [cc |-> canon_camera, gp |-> gp_objects]
       IN /\ canon_camera' = [st.cc EXCEPT !.alloc = FALSE]
          /\ gp_objects' = st.gp
    /\ ApiReturn(t, "void")
    /\ UNCHANGED <<nonApiVars, ret>>

\* canon_camera_create after a destroy: a new zeroed structure.
api_create(t) ==
    /\ pc[t] = "idle" /\ ~canon_camera.alloc
    /\ canon_camera' = NewCanonCamera
    /\ UNCHANGED <<nonApiVars, pc, ret, gp_objects, api>>

\* Mutant: start_live_view does not look at the connected flag.
NeedsConnection_Ignored == FALSE

\* Lines 316-319 and 395-398: if (!camera->connected) return Disconnected.
NeedsConnection == ~canon_camera.connected

\* canon_camera_start_live_view.
api_start_live_view(t) ==
    /\ InApi(t, "start_live_view")
    /\ IF NeedsConnection
       THEN ApiReturn(t, "DISCONNECTED") /\ UNCHANGED canon_camera
       ELSE IF canon_camera.live_view_active
       THEN ApiReturn(t, "SUCCESS") /\ UNCHANGED canon_camera
       ELSE \/ \E e \in GpErrors : ApiReturn(t, e) /\ UNCHANGED canon_camera
            \/ /\ canon_camera' = [canon_camera EXCEPT !.live_view_active = TRUE]
               /\ ApiReturn(t, "SUCCESS")
    /\ UNCHANGED <<nonApiVars, ret, gp_objects>>

\* canon_camera_stop_live_view.
api_stop_live_view(t) ==
    /\ InApi(t, "stop_live_view")
    /\ IF ~canon_camera.connected \/ ~canon_camera.live_view_active
       THEN UNCHANGED canon_camera
       ELSE canon_camera' = [canon_camera EXCEPT !.live_view_active = FALSE]
    /\ ApiReturn(t, "void")
    /\ UNCHANGED <<nonApiVars, ret, gp_objects>>

\* Mutant: the whole image is copied.
CopySize_Whole(size, buffer_size) == size

\* Line 428: copy_size = (size < buffer_size) ? size : buffer_size;
CopySize(size, buffer_size) == IF size < buffer_size THEN size ELSE buffer_size

\* canon_camera_capture_frame: gp_file_new, gp_camera_capture_preview or
\* gp_file_get_data_and_size may fail; otherwise the image is copied.
api_capture_frame(t) ==
    /\ InApi(t, "capture_frame")
    /\ IF NeedsConnection
       THEN ApiReturn(t, "DISCONNECTED") /\ UNCHANGED canon_camera
       ELSE IF ~canon_camera.live_view_active
       THEN ApiReturn(t, "NOT_SUPPORTED") /\ UNCHANGED canon_camera
       ELSE \/ \E e \in GpErrors : ApiReturn(t, e) /\ UNCHANGED canon_camera
            \/ \E size \in ImageSizes :
                 /\ pc' = Set(t, "idle")
                 /\ api' = [api EXCEPT
                      !.err = "SUCCESS", !.size = size,
                      !.bytes_written = CopySize(size, api.buffer_size)]
                 /\ canon_camera' = [canon_camera EXCEPT !.frame_count = @ + 1]
    /\ UNCHANGED <<nonApiVars, ret, gp_objects>>

NextApi ==
    \/ ApiCall(CTL)
    \/ api_connect(CTL)
    \/ api_disconnect(CTL)
    \/ api_destroy(CTL)
    \/ api_create(CTL)
    \/ api_start_live_view(CTL)
    \/ api_stop_live_view(CTL)
    \/ api_capture_frame(CTL)

SpecApi == Init /\ [][NextApi]_vars

\* ------------------------------------- the configuration's way in
\* The control thread passes configurations, valid or not, to
\* video_source_init and to canon_camera_connect.
NextCfg ==
    \/ \E f \in Configs : CallInit(CTL, f)
    \/ video_source_init(CTL)
    \/ ApiCallOf(CTL, {"connect", "disconnect"})
    \/ api_connect(CTL)
    \/ api_disconnect(CTL)

SpecCfg == Init /\ [][NextCfg]_vars

\* ------------------------------------ camera-detector.c (hot-plug registry)
\* Hot-plug events (arrivals and removals) the bus produces in a run.
MaxEvents == 3

\* Every variable but the detector's, the threads' positions and results.
nonDetVars == <<camera, format, capture_thread, mutex, queueVars, active,
                thread_running, statVars, camVars, clock, convVars, sessVars,
                apiVars, eosVars, arg, held, histVars>>

\* #define CANON_VENDOR_ID 0x04A9, #define MAX_CAMERAS 16
CANON_VENDOR_ID == 1193
MAX_CAMERAS == 16

\* The product ids of g_supported_models: 0x3264, 0x3265, 0x326F, 0x3270,
\* 0x3252, 0x32D1, 0x32D2, 0x32D3, 0x3280, 0x3299.
g_supported_models ==
    {12900, 12901, 12911, 12912, 12882, 13009, 13010, 13011, 12928, 12953}

\* The models README.md lists as supported: those of the table and the
\* Canon EOS R7, whose product id is 0x32F7 (TESTING.md).
EOS_R7 == 13047
DocumentedModels == g_supported_models \cup {EOS_R7}

\* Devices that can be plugged in: an EOS R5, an EOS R7, a Canon device
\* that is no supported camera, and a device of another vendor.
UsbDevices == {"r5", "r7", "printer", "hub"}

\* Sixteen further cameras (EOS R5), as many as the registry has entries.
HubCameras == {"cam01", "cam02", "cam03", "cam04", "cam05", "cam06",
               "cam07", "cam08", "cam09", "cam10", "cam11", "cam12",
               "cam13", "cam14", "cam15", "cam16"}

Descriptor ==
    [d \in UsbDevices \cup HubCameras |->
        CASE d = "r7" -> [idVendor |-> CANON_VENDOR_ID, idProduct |-> EOS_R7]
          [] d = "printer" -> [idVendor |-> CANON_VENDOR_ID, idProduct |-> 4307]
          [] d = "hub" -> [idVendor |-> 1133, idProduct |-> 13010]
          [] OTHER -> [idVendor |-> CANON_VENDOR_ID, idProduct |-> 13010]]

\* The order in which libusb lists the devices.
DeviceList ==
    <<"cam01", "cam02", "cam03", "cam04", "cam05", "cam06", "cam07", "cam08",
      "cam09", "cam10", "cam11", "cam12", "cam13", "cam14", "cam15", "cam16",
      "r5", "r7", "printer", "hub">>

\* camera_detector_is_supported, lines 64-76.
camera_detector_is_supported(vendor_id, product_id) ==
    /\ vendor_id = CANON_VENDOR_ID
    /\ product_id \in g_supported_models

\* The camera_info_t filled in for device d (lines 95-106 and 202-213);
\* the path is made of the bus number and the address, one per device.
InfoOf(d) ==
    [device_path |-> d,
     vendor_id |-> Descriptor[d].idVendor,
     product_id |-> Descriptor[d].idProduct,
     is_supported |-> camera_detector_is_supported(Descriptor[d].idVendor,
                                                   Descriptor[d].idProduct)]

\* Mutant: an arrival is never found in the registry.
InRegistry_Never(cams, d) == FALSE

\* Some entry of the registry cams has the path of device d.
InRegistry(cams, d) == \E i \in 1 .. Len(cams) : cams[i].device_path = d

\* Lines 137-146: the first entry with the path of d is removed.
RECURSIVE RemoveEntry(_, _)
RemoveEntry(cams, d) ==
    IF cams = <<>> THEN <<>>
    ELSE IF Head(cams).device_path = d THEN Tail(cams)
    ELSE <<Head(cams)>> \o RemoveEntry(Tail(cams), d)

\* hotplug_callback for a device of the vendor (libusb calls it for no
\* other), run by thread: under the registry lock the entry is added or
\* removed, then the event callback, if one is set, is invoked.  st holds
\* the registry and the record of the last invocation.
hotplug_callback(st, d, arrived, thread) ==
    LET cams == IF arrived
                THEN IF ~InRegistry(st.cameras, d)
                        /\ Len(st.cameras) < MAX_CAMERAS
                     THEN Append(st.cameras, InfoOf(d))
                     ELSE st.cameras
                ELSE RemoveEntry(st.cameras, d)
    IN [cameras |-> cams,
        cb |-> IF st.event_callback
               THEN [dev |-> d, connected |-> arrived, thread |-> thread,
                     locked |-> TRUE, in_registry |-> InRegistry(cams, d)]
               ELSE st.cb,
        event_callback |-> st.event_callback]

\* camera_detector_create, lines 192-223: the devices of the vendor among
\* the first n of the list that are present get an entry.
\* (The registry before device n is drawn from a one-element set, which
\* makes TLC compute it first.)
RECURSIVE CreateRegistry(_, _)
CreateRegistry(present, n) ==
    IF n = 0 THEN <<>>
    ELSE LET d == DeviceList[n]
         IN CHOOSE after \in
                {IF d \in present /\ Descriptor[d].idVendor = CANON_VENDOR_ID
                    /\ Len(before) < MAX_CAMERAS
                 THEN Append(before, InfoOf(d))
                 ELSE before :
                   before \in {CreateRegistry(present, n - 1)}} : TRUE

\* LIBUSB_HOTPLUG_ENUMERATE: libusb_hotplug_register_callback calls
\* hotplug_callback, in the calling thread, for every matching device among
\* the first n of the list that is attached.
\* (The state before device n is drawn from a one-element set, which makes
\* TLC compute it first instead of inside the callback of device n.)
RECURSIVE Enumerate(_, _, _, _)
Enumerate(st, present, n, thread) ==
    IF n = 0 THEN st
    ELSE LET d == DeviceList[n]
         IN CHOOSE after \in
                {IF d \in present /\ Descriptor[d].idVendor = CANON_VENDOR_ID
                 THEN hotplug_callback(before, d, TRUE, thread)
                 ELSE before :
                   before \in {Enumerate(st, present, n - 1, thread)}} : TRUE

\* camera_detector_set_callback.
camera_detector_set_callback(t) ==
    /\ pc[t] = "idle" /\ ~detector.event_callback
    /\ detector' = [detector EXCEPT !.event_callback = TRUE]
    /\ UNCHANGED <<nonDetVars, pc, ret, monitor, usb, cb_last>>

\* camera_detector_start: nothing if running; else the hot-plug callback
\* is registered (which enumerates the attached devices), the flag is set
\* and the monitor thread is created.
camera_detector_start(t) ==
    /\ pc[t] = "idle"
    /\ IF detector.running
       THEN /\ ret' = Return(t, "SUCCESS")
            /\ UNCHANGED <<detector, monitor, usb, cb_last>>
       ELSE \/ \* libusb_hotplug_register_callback fails
               /\ ret' = Return(t, "USB_INIT")
               /\ UNCHANGED <<detector, monitor, usb, cb_last>>
            \/ \E created \in BOOLEAN :
                 LET st == Enumerate([cameras |-> detector.cameras,
                                      cb |-> cb_last,
                                      event_callback |-> detector.event_callback],
                                     usb.present, Len(DeviceList), "caller")
                 IN /\ cb_last' = st.cb
                    /\ detector' = [detector EXCEPT !.cameras = st.cameras,
                                                    !.running = created,
                                                    !.registered = created]
                    /\ monitor' = IF created THEN "test" ELSE monitor
                    /\ ret' = Return(t, IF created THEN "SUCCESS" ELSE "UNKNOWN")
                    /\ UNCHANGED usb
    /\ UNCHANGED <<nonDetVars, pc>>

\* A device is plugged in or pulled out; libusb queues an event for the
\* registered callback if the device is of the vendor it was registered
\* for.
hotplug(d) ==
    /\ usb.events < MaxEvents
    /\ LET arrived == d \notin usb.present
       IN usb' = [present |-> IF arrived THEN usb.present \cup {d}
                                         ELSE usb.present \ {d},
                  pending |-> IF detector.registered
                                 /\ Descriptor[d].idVendor = CANON_VENDOR_ID
                              THEN Append(usb.pending,
                                          [dev |-> d, arrived |-> arrived])
                              ELSE usb.pending,
                  events |-> usb.events + 1]
    /\ UNCHANGED <<nonDetVars, pc, ret, detector, monitor, cb_last>>

\* Mutant: the monitor loop does not look at the running flag.
monitor_test_Forever ==
    /\ monitor = "test"
    /\ monitor' = "events"
    /\ UNCHANGED <<nonDetVars, pc, ret, detector, usb, cb_last>>

\* monitor_thread_func, line 168: while (detector->running)
monitor_test ==
    /\ monitor = "test"
    /\ monitor' = IF detector.running THEN "events" ELSE "exited"
    /\ UNCHANGED <<nonDetVars, pc, ret, detector, usb, cb_last>>

\* Line 169: libusb_handle_events_timeout_completed returns after 100 ms or
\* after it has delivered a pending event to hotplug_callback.
monitor_handle_events ==
    /\ monitor = "events"
    /\ monitor' = "test"
    /\ IF usb.pending = <<>>
       THEN UNCHANGED <<detector, usb, cb_last>>
       ELSE LET ev == Head(usb.pending)
                st == hotplug_callback([cameras |-> detector.cameras,
                                        cb |-> cb_last,
                                        event_callback |-> detector.event_callback],
                                       ev.dev, ev.arrived, "monitor")
            IN /\ detector' = [detector EXCEPT !.cameras = st.cameras]
               /\ cb_last' = st.cb
               /\ usb' = [usb EXCEPT !.pending = Tail(@)]
    /\ UNCHANGED <<nonDetVars, pc, ret>>

\* Line 289: if (!detector || !detector->running) return;
DetectorStopIsNoop == ~detector.running

\* camera_detector_stop, lines 289-293: the flag is cleared.
camera_detector_stop(t) ==
    /\ pc[t] = "idle"
    /\ IF DetectorStopIsNoop
       THEN ret' = Return(t, "void") /\ UNCHANGED <<pc, detector>>
       ELSE /\ detector' = [detector EXCEPT !.running = FALSE]
            /\ pc' = Set(t, "det_join") /\ ret' = Return(t, "-")
    /\ UNCHANGED <<nonDetVars, monitor, usb, cb_last>>

\* Line 295: pthread_join returns once the monitor thread has terminated.
camera_detector_stop_join(t) ==
    /\ pc[t] = "det_join"
    /\ monitor = "exited"
    /\ monitor' = "none"
    /\ pc' = Set(t, "det_dereg")
    /\ UNCHANGED <<nonDetVars, ret, detector, usb, cb_last>>

\* Lines 297-300: the callback is deregistered (its pending events are
\* dropped) and stop returns.
camera_detector_stop_deregister(t) ==
    /\ pc[t] = "det_dereg"
    /\ detector' = [detector EXCEPT !.registered = FALSE]
    /\ usb' = [usb EXCEPT !.pending = <<>>]
    /\ pc' = Set(t, "idle") /\ ret' = Return(t, "void")
    /\ UNCHANGED <<nonDetVars, monitor, cb_last>>

\* After camera_detector_create on a bus with any devices attached.
InitDet ==
    /\ PipelineInit
    /\ pc = [t \in Threads |-> IF t \in Prod THEN "none" ELSE "idle"]
    /\ conv_in = NoImage /\ conv_out = NoOutput
    /\ SessionInit
    /\ ApiInit
    /\ EosInit
    /\ monitor = "none"
    /\ cb_last = NoCallback
    /\ \E present \in SUBSET UsbDevices :
          /\ usb = [present |-> present, pending |-> <<>>, events |-> 0]
          /\ detector = [running |-> FALSE, registered |-> FALSE,
                         cameras |-> CreateRegistry(present, Len(DeviceList)),
                         event_callback |-> FALSE]

NextDet ==
    \/ camera_detector_set_callback(CTL)
    \/ camera_detector_start(CTL)
    \/ camera_detector_stop(CTL)
    \/ camera_detector_stop_join(CTL)
    \/ camera_detector_stop_deregister(CTL)
    \/ \E d \in UsbDevices : hotplug(d)
    \/ monitor_test
    \/ monitor_handle_events

\* Scheduling: the monitor thread keeps running, and stop() goes on when
\* its join has returned.
FairDet ==
    /\ WF_vars(monitor_test)
    /\ WF_vars(monitor_handle_events)
    /\ WF_vars(camera_detector_stop_join(CTL))
    /\ WF_vars(camera_detector_stop_deregister(CTL))

SpecDet == InitDet /\ [][NextDet]_vars /\ FairDet

\* After camera_detector_create on a bus with more cameras than the
\* registry holds: the sixteen of the hub and any of the other devices.
InitFull ==
    /\ PipelineInit
    /\ pc = [t \in Threads |-> IF t \in Prod THEN "none" ELSE "idle"]
    /\ conv_in = NoImage /\ conv_out = NoOutput
    /\ SessionInit
    /\ ApiInit
    /\ EosInit
    /\ monitor = "none"
    /\ cb_last = NoCallback
    /\ \E others \in SUBSET UsbDevices :
          LET present == HubCameras \cup others
          IN /\ usb = [present |-> present, pending |-> <<>>, events |-> 0]
             /\ detector = [running |-> FALSE, registered |-> FALSE,
                            cameras |-> CreateRegistry(present, Len(DeviceList)),
                            event_callback |-> FALSE]

\* The detector on that bus; the first camera of the hub and the other
\* devices are plugged in and pulled out.
NextFull ==
    \/ camera_detector_set_callback(CTL)
    \/ camera_detector_start(CTL)
    \/ camera_detector_stop(CTL)
    \/ camera_detector_stop_join(CTL)
    \/ camera_detector_stop_deregister(CTL)
    \/ \E d \in UsbDevices \cup {"cam01"} : hotplug(d)
    \/ monitor_test
    \/ monitor_handle_events

SpecFull == InitFull /\ [][NextFull]_vars

\* ------------------------------------ images the decoder cannot read
\* Line 498: cinfo.err = jpeg_std_error(&jerr), and no error_exit of the
\* program's own.  On data it cannot decode (no SOI marker, an unsupported
\* or corrupt header) and when its own allocation fails the library calls
\* error_exit, which for the standard error manager is exit(): every
\* thread of the process ends, in the middle of the producer's critical
\* section.
jpeg_error_exit(p) ==
    /\ pc[p] = "enq_cs" /\ mutex = p
    /\ ~QueueFull /\ Writable(WriteSlot)
    /\ pc' = [t \in Threads |-> "terminated"]
    /\ UNCHANGED <<camera, format, capture_thread, mutex, queueVars, active,
                   thread_running, statVars, camVars, devVars, arg, ret,
                   held, histVars>>

\* The pipeline on a device whose images may be malformed.
NextDecode ==
    \/ \E t \in Threads : mutex_lock(t)
    \/ \E f \in Formats : CallInit(CTL, f)
    \/ CallStart(CTL)
    \/ CallStop(CTL)
    \/ video_source_init(CTL)
    \/ video_source_start(CTL)
    \/ video_source_stop_signal(CTL)
    \/ video_source_stop_join(CTL)
    \/ video_source_stop_live_view(CTL)
    \/ \E c \in Cons : CallGetFrame(c)
    \/ \E c \in Cons : video_source_get_frame(c)
    \/ \E c \in Cons : cond_timedwait_timeout(c)
    \/ \E c \in Cons : cond_timedwait_spurious(c)
    \/ \E c \in Cons : video_source_get_frame_timeout(c)
    \/ \E c \in Cons : CallReleaseFrame(c)
    \/ \E c \in Cons : video_source_release_frame(c)
    \/ \E p \in Prod : capture_loop(p)
    \/ \E p \in Prod : capture_frame(p)
    \/ \E p \in Prod : capture_drop(p)
    \/ \E p \in Prod : capture_enqueue(p)
    \/ \E p \in Prod : jpeg_error_exit(p)

SpecDecode == Init /\ [][NextDecode]_vars

\* ------------------------------- start() and stop() from two threads
\* Two threads of the host call start() and stop() of the same pipeline
\* in any order and at any time.  Lines 237-240 of stop run without the
\* mutex, so each of their accesses is a step of its own here.

\* Position of a thread blocked in pthread_join(p).
JoinOf(p) == IF p = "p1" THEN "join_p1" ELSE "join_p2"

\* Line 237 and the argument of line 238: thread_running and
\* capture_thread are read.
video_source_stop_test(t) ==
    /\ pc[t] = "stop_join"
    /\ pc' = Set(t, IF thread_running /\ capture_thread # NULL
                    THEN JoinOf(capture_thread) ELSE "stop_lv")
    /\ UNCHANGED <<camera, format, capture_thread, mutex, queueVars, active,
                   thread_running, statVars, camVars, devVars, arg, ret,
                   held, histVars>>

\* Line 238: pthread_join(p) returns once p has terminated.  Joining a
\* thread that was joined already is undefined; it returns at once here
\* (ESRCH), and blocks as long as a thread of that identity runs.
video_source_stop_pthread_join(t) ==
    /\ \E p \in Prod :
         /\ pc[t] = JoinOf(p)
         /\ pc[p] \in {"exited", "none"}
         /\ pc' = [pc EXCEPT ![t] = "stop_clear", ![p] = "none"]
    /\ UNCHANGED <<camera, format, capture_thread, mutex, queueVars, active,
                   thread_running, statVars, camVars, devVars, arg, ret,
                   held, histVars>>

\* Line 239: thread_running = false.
video_source_stop_clear(t) ==
    /\ pc[t] = "stop_clear"
    /\ pc' = Set(t, "stop_lv")
    /\ thread_running' = FALSE
    /\ UNCHANGED <<camera, format, capture_thread, mutex, queueVars, active,
                   statVars, camVars, devVars, arg, ret, held, histVars>>

NextRace ==
    \/ \E t \in Threads : mutex_lock(t)
    \/ \E f \in Formats : CallInit(CTL, f)
    \/ video_source_init(CTL)
    \/ \E t \in Controllers : CallStart(t)
    \/ \E t \in Controllers : CallStop(t)
    \/ \E t \in Controllers : video_source_start(t)
    \/ \E t \in Controllers : video_source_stop_signal(t)
    \/ \E t \in Controllers : video_source_stop_test(t)
    \/ \E t \in Controllers : video_source_stop_pthread_join(t)
    \/ \E t \in Controllers : video_source_stop_clear(t)
    \/ \E t \in Controllers : video_source_stop_live_view(t)
    \/ \E p \in Prod : capture_loop(p)
    \/ \E p \in Prod : capture_frame(p)
    \/ \E p \in Prod : capture_drop(p)
    \/ \E p \in Prod : capture_enqueue(p)

SpecRace == Init /\ [][NextRace]_vars

\* The step of the thread that owns the pipeline mutex: the rest of its
\* critical section, up to the unlock or the wait.
MutexHolderStep ==
    \/ video_source_init(CTL) \/ video_source_update_format(CTL)
    \/ video_source_start(CTL) \/ video_source_stop_signal(CTL)
    \/ \E c \in Cons : \/ video_source_get_frame(c)
                       \/ video_source_get_frame_timeout(c)
                       \/ video_source_release_frame(c)
    \/ \E p \in Prod : capture_drop(p) \/ capture_enqueue(p)

\* Scheduling: the thread that owns the mutex runs to the end of its
\* critical section; a consumer that asks for the mutex gets it if the
\* mutex is free again and again; the deadline of a pthread_cond_timedwait
\* passes.  Nothing is assumed about the producer's progress outside its
\* critical section, nor about the callers starting further calls.
Fairness ==
    /\ WF_vars(MutexHolderStep)
    /\ \A c \in Cons : SF_vars(mutex_lock(c))
    /\ \A c \in Cons : SF_vars(cond_timedwait_timeout(c))

SpecLive == Spec /\ Fairness

\* ================================================================ claims

\* C1: for every sequence of start() and stop() calls at most one producer
\* thread exists at any time, and a start() on an already-running pipeline
\* returns success without spawning a thread.
C1_AtMostOneProducer ==
    /\ [](Cardinality(Alive) <= 1)
    /\ [][(pc[CTL] = "start_cs" /\ active /\ pc'[CTL] = "idle")
            => (ret'[CTL] = "SUCCESS" /\ Alive' = Alive
                /\ capture_thread' = capture_thread)]_vars

\* start() is executing on a pipeline that is running with its one producer.
C1_Witness ==
    pc[CTL] = "start_cs" /\ active /\ Cardinality(Alive) = 1
    /\ frames_captured > 0

\* C2: in the state in which a stop() call has returned, no producer thread
\* of the pipeline exists any more: it has exited and has been joined.
C2_StopReturnsAfterExit ==
    (pc[CTL] = "idle" /\ ret[CTL] = "void") => Alive = {}

\* stop() has returned on a pipeline that had been started and had produced.
C2_Witness ==
    pc[CTL] = "idle" /\ ret[CTL] = "void" /\ capture_thread # NULL
    /\ frames_captured > 0 /\ ~thread_running

\* C3: stop() clears the running flag under the lock, releases the lock,
\* joins the producer and only then deactivates live view; the lock is not
\* held by stop() during the join.
C3_StopOrder ==
    /\ pc[CTL] = "stop_join" => (~active /\ mutex # CTL)
    /\ pc[CTL] = "stop_lv" => (~active /\ mutex # CTL /\ Alive = {})
    /\ (Alive # {} /\ camera # NULL) => cam[camera].live_view_active

\* stop() waits in the join while the producer owns the pipeline lock.
C3_Witness ==
    pc[CTL] = "stop_join" /\ capture_thread # NULL
    /\ pc[capture_thread] = "enq_cs" /\ mutex = capture_thread

\* C4: the camera is disconnected and destroyed only after the producer has
\* been stopped and joined, and nothing touches a destroyed camera: while a
\* producer executes, the pipeline's camera is connected, and no call has
\* been made on a destroyed camera.
C4_TeardownAfterJoin ==
    /\ ~uaf
    /\ Executing # {} => cam[camera].st = "connected"

\* C5: the producer never writes pixel data into a slot that a consumer
\* obtained from get_frame and has not yet given back with release_frame.
C5_NoWriteIntoHeldSlot == overwritten = {}

\* C6: 0 <= frame_count <= 4, 0 <= write_index, read_index < 4, and each
\* index only ever changes by +1 modulo 4.
C6_QueueBounds ==
    /\ [](/\ frame_count \in 0 .. 4
          /\ write_index \in 0 .. 3
          /\ read_index \in 0 .. 3)
    /\ [][/\ write_index' # write_index => write_index' = (write_index + 1) % 4
          /\ read_index' # read_index => read_index' = (read_index + 1) % 4]_vars

\* Both indices have gone round the ring.
C6_Witness ==
    write_index = 1 /\ read_index = 0 /\ frames_captured = 5

\* C7 as stated: (write_index - read_index) mod capacity = count.
C7_IndexDifferenceIsCount ==
    (write_index - read_index) % 4 = frame_count

\* C7 amended: count is in 0..4 and (write_index - read_index) mod capacity
\* = count mod capacity, so a full queue has write_index = read_index.
C7_IndexDifferenceIsCountModCapacity ==
    /\ frame_count \in 0 .. 4
    /\ (write_index - read_index) % 4 = frame_count % 4

\* The queue is full and both indices stand on the same slot.
C7_Witness ==
    frame_count = 4 /\ write_index = read_index /\ read_index = 1

\* C8: get_frame returns the frames in the order in which the producer
\* enqueued them, none reordered, none twice, with strictly increasing
\* timestamps.
C8_DeliveredInCaptureOrder ==
    /\ Len(delivered) <= Len(enqueued)
    /\ \A i \in 1 .. Len(delivered) : delivered[i].timestamp = enqueued[i]
    /\ \A i, j \in 1 .. Len(delivered) :
          i < j => delivered[i].timestamp < delivered[j].timestamp

\* Five frames were delivered: the fifth from a slot that was used before.
C8_Witness == Len(delivered) >= 5

\* C9: a producer that holds an image and finds the queue full drops that
\* image: frames_dropped grows by one, the queue is left as it is, and the
\* producer goes on with its loop without waiting.
C9_DropNewest ==
    [][\A p \in Prod :
         (pc[p] = "enq_cs" /\ mutex = p /\ frame_count = 4 /\ pc'[p] # pc[p])
           => /\ frames_dropped' = frames_dropped + 1
              /\ UNCHANGED <<frame_queue, write_index, read_index, frame_count,
                             frames_captured>>
              /\ pc'[p] = "loop" /\ mutex' = "free"]_vars

\* An image was dropped and the queue is full.
C9_Witness == frames_dropped > 0 /\ frame_count = 4


\* Positions inside video_source_get_frame.
InGetFrame(c) == pc[c] \in {"gf_cs", "gf_wait", "gf_relock", "gf_tmo_lock", "gf_tmo"}

C12_FrameDimsAreDecoded ==
    \A i \in 1 .. Len(delivered) :
        LET dims == [width |-> delivered[i].width, height |-> delivered[i].height]
        IN /\ dims = ImageDims(delivered[i].timestamp)
           /\ dims \in DecodedDims
           /\ dims \notin Formats

\* Frames of both decoded sizes were returned while the pipeline was
\* configured for another size.
C12_Witness ==
    /\ \E i \in 1 .. Len(delivered) : delivered[i].width = 3
    /\ \E i \in 1 .. Len(delivered) : delivered[i].width = 2
    /\ format.width = 4

\* C13: every frame get_frame returns has linesize[0] = linesize[1] = width
\* and its chroma plane at offset width * height.
C13_LayoutMatchesDims ==
    \A i \in 1 .. Len(delivered) :
        /\ delivered[i].linesize = <<delivered[i].width, delivered[i].width>>
        /\ delivered[i].uv_offset = delivered[i].width * delivered[i].height


\* C14: the converter never writes past the destination slot; an image
\* whose planes need more than MAX_FRAME_SIZE bytes is rejected with an
\* error and nothing is written.
C14_NoWritePastSlot ==
    /\ conv_out.y_bytes <= MAX_FRAME_SIZE
    /\ conv_out.uv_bytes <= MAX_FRAME_SIZE - conv_out.y_bytes
    /\ (conv_out.err = "SUCCESS" /\ conv_in # NoImage)
          => YPlaneBytes(conv_in.width, conv_in.height) <= MAX_FRAME_SIZE


C16_FailedStartLeavesIdle ==
    [][(pc[CTL] = "start_cs" /\ pc'[CTL] = "idle" /\ ret'[CTL] # "SUCCESS")
         => /\ ~active' /\ ~thread_running'
            /\ Alive' = {}
            /\ ret'[CTL] \in {"NO_DEVICE", "DISCONNECTED", "UNKNOWN"}
            /\ camera # NULL =>
                  (cam'[camera].live_view_active => cam[camera].live_view_active)]_vars

\* A start() of a pipeline that had run before has failed.
C16_Witness ==
    /\ pc[CTL] = "idle" /\ ret[CTL] = "UNKNOWN"
    /\ ~active /\ frames_captured > 0 /\ camera # NULL


\* C17: a stop() on a pipeline that a completed stop() has left inactive
\* returns without changing pipeline state: the flags, the queue, the
\* counters, the thread handle and the camera's live-view state are the
\* same before and after it.
C17_SecondStopIsNoop ==
    [][(pc[CTL] \in {"idle", "stop_cs"} /\ pc'[CTL] \in {"stop_cs", "stop_join", "idle"}
        /\ pc'[CTL] # pc[CTL] /\ ~active)
         => /\ (pc[CTL] = "stop_cs" => (pc'[CTL] = "idle" /\ ret'[CTL] = "void"))
            /\ UNCHANGED <<camera, format, capture_thread, queueVars, active,
                           thread_running, statVars, cam>>]_vars

\* stop() runs on a pipeline that has produced frames and that an earlier
\* stop() has stopped and joined.
C17_Witness ==
    /\ pc[CTL] = "stop_cs" /\ ~active /\ ~thread_running
    /\ frames_captured > 0 /\ Alive = {}
    /\ camera # NULL /\ ~cam[camera].live_view_active


\* The threads inside the device calls of session k.
DeviceCallers(k) == {t \in SessThreads : pc[t] = "s_io" /\ op[t].k = k}

C19_SessionCallsReturn ==
    \A t \in SessThreads : (pc[t] # "idle") ~> (pc[t] = "idle")

\* C20: a connected session holds the device its path names, and no two
\* connected sessions hold the same device.
C20_OneSessionPerNamedDevice ==
    /\ \A k \in Cams :
          sess[k].connected => sess[k].gphoto_camera = sess[k].device_path
    /\ \A j, k \in Cams :
          (j # k /\ sess[j].connected /\ sess[k].connected)
            => sess[j].gphoto_camera # sess[k].gphoto_camera

\* C21: connect() on a session that is Connected returns Busy and changes
\* nothing: every field of the session (connected, device path,
\* configuration, live-view flag, the three handles) and the set of the
\* library's objects stay as they were.
C21_ConnectWhenConnectedIsBusy ==
    [][(InApi(CTL, "connect") /\ canon_camera.connected /\ pc'[CTL] = "idle")
         => /\ api'.err = "CAMERA_BUSY"
            /\ canon_camera' = canon_camera
            /\ gp_objects' = gp_objects]_vars

\* A connect with another path and another configuration has returned Busy
\* on a session that is connected with live view on.
C21_Witness ==
    /\ pc[CTL] = "idle" /\ api.fn = "connect" /\ api.err = "CAMERA_BUSY"
    /\ canon_camera.connected /\ canon_camera.live_view_active
    /\ api.path # canon_camera.device_path
    /\ api.config # canon_camera.config

\* C22: when a step of connect() fails, what the call had acquired is
\* released exactly once, an error is returned and the session stays
\* Disconnected; in every later state (after any further connect,
\* disconnect, destroy) the library holds exactly the three objects of a
\* connected session or none, and no object was released twice.
C22_FailedConnectReleasesAll ==
    /\ ~gp_objects.misused
    /\ gp_objects.live = (IF canon_camera.alloc /\ canon_camera.connected
                          THEN 3 ELSE 0)
    /\ (pc[CTL] = "idle" /\ api.fn = "connect"
        /\ api.err \notin {"SUCCESS", "CAMERA_BUSY"})
         => (api.err \in GpErrors /\ ~canon_camera.connected)

\* gp_camera_init has failed (the three handles are stale, nothing is
\* live), and the session has then been destroyed.
C22_Witness ==
    /\ pc[CTL] = "idle" /\ api.fn = "destroy" /\ ~canon_camera.alloc
    /\ canon_camera.gphoto_camera = "released"
    /\ canon_camera.abilities_list = "released"
    /\ canon_camera.port_info_list = "released"
    /\ ~canon_camera.connected /\ gp_objects.live = 0

\* C23: disconnect() on a connected session ends with the session
\* Disconnected, live view inactive, the three handles released and set to
\* NULL; disconnect() on a disconnected session returns without error and
\* changes nothing.
C23_DisconnectIsIdempotent ==
    [][(InApi(CTL, "disconnect") /\ pc'[CTL] = "idle")
         => /\ api'.err = "void"
            /\ IF canon_camera.connected
               THEN /\ ~canon_camera'.connected
                    /\ ~canon_camera'.live_view_active
                    /\ canon_camera'.gphoto_camera = NULL
                    /\ canon_camera'.abilities_list = NULL
                    /\ canon_camera'.port_info_list = NULL
                    /\ gp_objects' = [live |-> 0, misused |-> FALSE]
               ELSE /\ canon_camera' = canon_camera
                    /\ gp_objects' = gp_objects]_vars

\* A session that has delivered frames (so it was connected with live view
\* on) is Disconnected after a disconnect().
C23_Witness ==
    /\ pc[CTL] = "idle" /\ api.fn = "disconnect"
    /\ canon_camera.frame_count > 0
    /\ ~canon_camera.connected /\ canon_camera.gphoto_camera = NULL

\* C24: start_live_view and capture_frame return Disconnected on a session
\* that is not connected; capture_frame returns NotSupported on a connected
\* session whose live view is inactive; start_live_view with live view
\* active and stop_live_view with live view inactive (or not connected)
\* succeed; in all these cases the session is left unchanged.
C24_PreconditionsAreErrors ==
    [][\A fn \in {"start_live_view", "stop_live_view", "capture_frame"} :
         (InApi(CTL, fn) /\ pc'[CTL] = "idle")
           => /\ (fn # "stop_live_view" /\ ~canon_camera.connected)
                   => (api'.err = "DISCONNECTED"
                       /\ canon_camera' = canon_camera)
              /\ (fn = "capture_frame" /\ canon_camera.connected
                  /\ ~canon_camera.live_view_active)
                   => (api'.err = "NOT_SUPPORTED"
                       /\ canon_camera' = canon_camera)
              /\ (fn = "start_live_view" /\ canon_camera.connected
                  /\ canon_camera.live_view_active)
                   => (api'.err = "SUCCESS" /\ canon_camera' = canon_camera)
              /\ (fn = "stop_live_view"
                  /\ (~canon_camera.connected
                      \/ ~canon_camera.live_view_active))
                   => (api'.err = "void" /\ canon_camera' = canon_camera)]_vars

\* capture_frame has returned NotSupported on a connected session without
\* live view that was disconnected and connected again before.
C24_Witness ==
    /\ pc[CTL] = "idle" /\ api.fn = "capture_frame"
    /\ api.err = "NOT_SUPPORTED"
    /\ canon_camera.connected /\ ~canon_camera.live_view_active
    /\ canon_camera.frame_count > 0

\* C25: a capture_frame that returns Success has written
\* min(image size, buffer_size) bytes, never more than buffer_size; an image
\* larger than the buffer is truncated and still returned with Success.
C25_CaptureNeverOverflows ==
    (api.fn = "capture_frame" /\ api.err = "SUCCESS")
      => /\ api.bytes_written <= api.buffer_size
         /\ api.bytes_written <= api.size
         /\ (api.bytes_written = api.size
             \/ api.bytes_written = api.buffer_size)

\* The device's image was larger than the caller's buffer and the call
\* returned Success with the buffer filled.
C25_Witness ==
    /\ pc[CTL] = "idle" /\ api.fn = "capture_frame" /\ api.err = "SUCCESS"
    /\ api.size > api.buffer_size
    /\ api.bytes_written = api.buffer_size

\* C26: init() and connect() answer a configuration outside the
\* capabilities (more than 3840x2160, fps outside 24..60, fps = 0) with
\* InvalidParameter and keep the format / configuration stored before.
C26_OutOfRangeRejected ==
    /\ [][(pc[CTL] = "init_cs" /\ pc'[CTL] = "idle"
           /\ ~WithinCapabilities(arg))
            => (ret'[CTL] = "INVALID_PARAM" /\ format' = format)]_vars
    /\ [][(InApi(CTL, "connect") /\ pc'[CTL] = "idle"
           /\ ~WithinCapabilities(api.config))
            => (api'.err = "INVALID_PARAM"
                /\ canon_camera'.config = canon_camera.config)]_vars

\* C27: camera_detector_stop() clears the running flag, joins the monitor
\* thread and only then deregisters the hot-plug callback; the monitor
\* thread rechecks the flag after every bounded wait, so a stop() that has
\* begun returns; a stop() of a detector that is not running changes
\* nothing.
C27_DetectorStopTerminates ==
    /\ (pc[CTL] = "det_join")
         ~> (pc[CTL] = "idle" /\ monitor = "none" /\ ~detector.registered)
    /\ [][(pc[CTL] = "det_join" /\ pc'[CTL] # "det_join")
            => (~detector.running /\ monitor = "exited"
                /\ detector.registered /\ detector'.registered)]_vars
    /\ [][(pc[CTL] = "idle" /\ pc'[CTL] = "idle"
           /\ ret'[CTL] = "void" /\ ret' # ret)
            => (~detector.running
                /\ UNCHANGED <<detector, monitor, usb, cb_last>>)]_vars

\* A detector whose monitor thread has delivered an event has been stopped:
\* the thread is joined and the callback deregistered.
C27_Witness ==
    /\ pc[CTL] = "idle" /\ ret[CTL] = "void"
    /\ cb_last.thread = "monitor"
    /\ ~detector.running /\ ~detector.registered /\ monitor = "none"

\* C28: the event callback is invoked once for each arrival and each
\* removal of a device of the vendor, on the monitor thread, with the
\* registry lock held and the registry already showing the event.
C28_CallbackOnMonitorThread ==
    /\ [](cb_last # NoCallback
            => /\ cb_last.thread = "monitor"
               /\ cb_last.locked
               /\ cb_last.in_registry = cb_last.connected)
    /\ [][cb_last' # cb_last
            => /\ usb.pending # <<>>
               /\ usb'.pending = Tail(usb.pending)
               /\ cb_last'.dev = Head(usb.pending).dev
               /\ cb_last'.connected = Head(usb.pending).arrived]_vars
    /\ [][(monitor = "events" /\ monitor' = "test" /\ usb.pending # <<>>
           /\ detector.event_callback)
            => /\ usb'.pending = Tail(usb.pending)
               /\ cb_last'.dev = Head(usb.pending).dev
               /\ cb_last'.connected = Head(usb.pending).arrived]_vars

\* C29: every attached device of the vendor has a registry entry (once the
\* running detector has handled the pending events), and an entry is marked
\* supported exactly when its product id is one of the documented models,
\* the EOS R7 (0x32F7) included; other products of the vendor are recorded
\* with supported = FALSE.
C29_SupportedFlagMatchesDocs ==
    /\ (detector.running /\ usb.pending = <<>>)
         => \A d \in usb.present :
               Descriptor[d].idVendor = CANON_VENDOR_ID
                 => InRegistry(detector.cameras, d)
    /\ \A i \in 1 .. Len(detector.cameras) :
          /\ detector.cameras[i].vendor_id = CANON_VENDOR_ID
          /\ detector.cameras[i].is_supported
               = (detector.cameras[i].product_id \in DocumentedModels)

\* C30: with start() and stop() called from two threads at any time, at
\* most one producer thread is alive, active implies thread_running in
\* every state, and the thread a stop() begins to join is the only
\* producer alive (the one that stop() signalled).
C30_ConcurrentStartStop ==
    /\ [](Cardinality(Alive) <= 1)
    /\ [](active => thread_running)
    /\ [][\A t \in Controllers : \A p \in Prod :
            (pc[t] = "stop_join" /\ pc'[t] = JoinOf(p)) => Alive = {p}]_vars

\* C35: every image the producer captured is counted: when the producer
\* leaves the locked part of its loop (lines 439-483) for the next round,
\* frames_captured + frames_dropped has grown by one, whether the image was
\* enqueued, dropped on a full queue, refused by the converter or met a
\* slot still in use.
C35_CapturesAccounted ==
    [][\A p \in Prod :
         (pc[p] = "enq_cs" /\ pc'[p] = "loop")
           => frames_captured' + frames_dropped'
                = frames_captured + frames_dropped + 1]_vars

\* C36: a start() that takes effect finds the queue empty, so that
\* get_frame, which hands out the queue's frames in order, delivers only
\* frames captured after it: nothing queued at the stop, or enqueued
\* between the stop signal and the producer's exit, is left.
C36_RestartDeliversOnlyNewFrames ==
    [][(~active /\ active') => frame_count' = 0]_vars

\* C39: for every decoded size (w, h) the two bytes the converter writes
\* for chroma row r lie at plane offsets in [r*w, (r+1)*w), that is at
\* slot offsets in [w*h + r*w, w*h + (r+1)*w), and the chroma plane ends
\* within w*h/2 bytes, the frame within w*h*3/2.  (uv_idx grows with i and
\* with j, so the ends of the loops decide for all of them.)
C39_ChromaInsideRows ==
    conv_out.err = "SUCCESS" =>
        LET w == conv_in.width
            h == conv_in.height
        IN /\ \A i \in LoopEnds(h) : \A j \in LoopEnds(w) :
                /\ (i \div 2) * w <= uv_idx(w, i, j)
                /\ uv_idx(w, i, j) + 1 < (i \div 2 + 1) * w
           /\ conv_out.uv_bytes <= (w * h) \div 2

\* C37: when the producer has handed an image to the converter (the queue
\* not full, the slot not in use) and the image is not enqueued, then
\* write_index, read_index, frame_count and frames_captured are as before,
\* the producer is back at the top of its loop, and no thread of the host
\* process has been terminated.
C37_DecodeFailureIsContained ==
    [][\A p \in Prod :
         (/\ pc[p] = "enq_cs" /\ pc'[p] # "enq_cs"
          /\ ~QueueFull /\ Writable(WriteSlot)
          /\ enqueued' = enqueued)
           => /\ write_index' = write_index /\ read_index' = read_index
              /\ frame_count' = frame_count
              /\ frames_captured' = frames_captured
              /\ pc'[p] = "loop"
              /\ \A t \in Threads : pc'[t] # "terminated"]_vars

\* C40: whatever arrivals and removals the callback has handled, and
\* whatever camera_detector_create and the enumeration at start found, the
\* registry holds at most MAX_CAMERAS = 16 entries and no two of them have
\* the same bus path.
C40_RegistryBoundedAndDistinct ==
    /\ Len(detector.cameras) \in 0 .. MAX_CAMERAS
    /\ \A i, j \in 1 .. Len(detector.cameras) :
          detector.cameras[i].device_path = detector.cameras[j].device_path
            => i = j

\* The registry is full and the arrival of a further camera has been
\* handled: the camera is attached and has no entry.
C40_Witness ==
    /\ Len(detector.cameras) = MAX_CAMERAS
    /\ cb_last.connected /\ ~cb_last.in_registry
    /\ cb_last.dev \in usb.present
    /\ usb.pending = <<>>

\* C32: once a source with a connected camera is activated, the glue
\* initialises and starts the pipeline, so that the source's thread gets
\* Success from video_source_get_frame and a frame reaches the host's video
\* sink (unless the source is deactivated, loses its camera or is being
\* destroyed first).
C32_ActivationDeliversFrames ==
    (eos.active /\ eos.thread_running /\ eos_camera # NULL)
        ~> (sink # NoFrame \/ ~eos.active \/ ~eos.thread_running
                \/ eos_camera = NULL)

\* C33: canon_eos_deactivate stops and joins the source's thread: when the
\* source goes from active to inactive, thread_running is false and no
\* thread of the source is left running.
C33_DeactivateJoinsThread ==
    [][(eos.active /\ ~eos'.active)
          => /\ ~eos'.thread_running
             /\ \A c \in Cons : pc'[c] \in {"none", "exited"}]_vars

\* C38: every return of a locking operation releases the lock it took: a
\* consumer back from video_source_get_frame (Success, Timeout, Disconnected
\* or Unknown) does not own the pipeline's mutex, and the host's thread owns
\* the plugin's mutex only inside obs_module_load and obs_module_unload.
C38_ReturnsReleaseTheLock ==
    /\ \A c \in Cons :
          (pc[c] = "idle"
             /\ ret[c] \in {"SUCCESS", "TIMEOUT", "DISCONNECTED", "UNKNOWN"})
          => mutex # c
    /\ \A t \in Controllers :
          pc[t] \notin {"load", "unload"} => plugin.mutex # t

\* C38: get_frame has handed out a frame and has since returned Unknown from
\* a failed wait, and obs_module_load has returned false.
C38_Witness ==
    /\ delivered # <<>>
    /\ \E c \in Cons : pc[c] = "idle" /\ ret[c] = "UNKNOWN"
    /\ pc[CTL] = "idle" /\ ret[CTL] = "false"
    /\ ~plugin.initialized

\* C34: the frame the source's thread hands to the host's video sink has the
\* width and height of the frame video_source_get_frame returned (the
\* decoded size), not the configured resolution.
C34_SinkGetsDecodedSize ==
    [][sink' # sink
          => /\ sink'.width = delivered[Len(delivered)].width
             /\ sink'.height = delivered[Len(delivered)].height]_vars

====
